---- MODULE Spec2Model ----
(***************************************************************************)
(* A model of agent-vcr: the recorder (recorder.py) with its session       *)
(* manager (core/session.py), the request matcher (core/matcher.py) and    *)
(* the replayer (replayer.py).                                             *)
(*                                                                         *)
(* Python's None is modelled per type: an absent JSON key is 0 (id) or ""  *)
(* (method), an Optional object is a sequence of length 0 or 1, a dict     *)
(* keyed by ids is a function whose DOMAIN is its key set.                 *)
(***************************************************************************)
EXTENDS Integers, Sequences, FiniteSets, TLC

(***************************************************************************)
(* Bounds of the model.                                                    *)
(***************************************************************************)
MaxId == 2
MaxNotifs == 2
MaxTime == 2
MaxSteps == 8
MaxInteractions == 3
MaxCalls == 4
MaxReplayLen == 2
MaxSubsetLen == 1
MaxSubsetCalls == 1
NumThreads == 2
CallsPerThread == 2

\* pending_timeout_seconds of the recorder under study, and the step of the
\* clock: time is observed in steps longer than the timeout.
PendingTimeout == 1
TickStep == PendingTimeout + 1
FileChunks == 2           \* write() calls json.dump makes for one recording
MaxVersions == 2          \* different recordings handed to stop() and save()
MaxDocLen == 2            \* interactions of a recording that is serialized
MaxDiffLen == 2           \* interactions of a recording that is compared
MaxLines == 2             \* lines the peers write to a stdio transport
MaxTransportCalls == 3    \* start() and stop() calls on one transport
MaxEvents == 2            \* events the remote server emits to an SSE proxy
MaxHistorySteps == 7      \* recorder steps followed with their provenance

VARIABLES
    \* ---- MCPRecorder (recorder.py) ----
    filterMethods,        \* self.filter_methods ({} models None / empty)
    maxInteractions,      \* self._max_interactions (0 = unlimited)
    pendingTimeout,       \* self._pending_timeout_seconds (0 = no sweep)
    isRecording,          \* self._is_recording
    initializeCaptured,   \* self._initialize_captured
    transportUp,          \* the transport started by start() is relaying
    cleanupTask,          \* self._pending_cleanup_task is running
    pendingRequests,      \* self._pending_requests: id -> request
    pendingRequestTimes,  \* self._pending_request_times: id -> timestamp
    notificationBuffer,   \* self._notification_buffer
    now,                  \* time.time()
    \* ---- SessionManager (core/session.py) ----
    smState,              \* self._state
    currentRecording,     \* self._current_recording (<<>> is None)
    interactionCounter,   \* self._interaction_counter
    \* ---- what the recorder's callers observe ----
    lastCallback,         \* the callback called last: "", "client", "server"
    lastCase,             \* the path the message took through it
    forwarded,            \* what it returned, against the message it was given
    returned,             \* the recording last returned by stop() (<<>>: none yet)
    savedFile,            \* the recording in the output file (<<>>: no file)
    raised,               \* the exception the last API call raised ("" if none)
    \* ---- history (not program state) ----
    nextNotif,            \* serial number of the next server notification
    notifArrival,         \* notification serial -> Len(recLog) when it arrived
    recLog,               \* notifications attached by each record_interaction
    \* ---- RequestMatcher (core/matcher.py) and the list it searches ----
    interactions,         \* the recorded interactions handed to find_match
    strategy,             \* self.strategy ("" while no matcher exists)
    requested,            \* history: the name the constructor was given
    sequentialIndex,      \* self._sequential_index
    matcherRaised,        \* the exception the last matcher call raised
    lastMatches,          \* what the last find_all_matches returned
    findLog,              \* history: request and result of each find_match
    resetKind,            \* history: the reset method called last ("" if none)
    \* ---- threads sharing one matcher ----
    pc,                   \* thread -> its position inside find_match
    local,                \* thread -> the values it holds on its stack
    callsLeft,            \* thread -> find_match calls it has yet to start
    results,              \* history: what each finished call returned
    \* ---- MCPReplayer (replayer.py) ----
    responseOverrides,    \* self._response_overrides: id -> response dict
    lastCall,             \* the replayer method called last ("" if none)
    overridesBefore,      \* history: the overrides when it was called
    lastRequest,          \* the request handle_request was last given
    lastResponse,         \* what it returned or raised (<<>>: not called yet)
    serving,              \* how the replayer is served: "" (not at all),
                          \* "direct", "sse", or the state of the serve_stdio
                          \* loop: "running", "eof", "crashed"
    lastLine,             \* the kind of the line serve_stdio read last
    emitted,              \* what was written for the last line or call
    served,               \* history: the response and interaction of it
    sse,                  \* handler of POST /message -> its progress
    \* ---- SessionManager driven directly (core/session.py) ----
    smCall,               \* the SessionManager method called last ("" if none)
    smBefore,             \* history: state, recording and counter before it
    smLog,                \* history: requests recorded since start_recording
    \* ---- MCPRecorder.record (recorder.py) ----
    requestedStop,        \* self._requested_stop
    recordPc,             \* record(): "idle" (not called), "refused" (raised
                          \* before its wait), "waiting", "done" (ended
                          \* after its wait)
    recordRaised,         \* the exception record() ended with ("" if none)
    saveCount,            \* history: stop() calls completed since record()
    \* ---- the files stop() and VCRRecording.save() write ----
    files,                \* path -> whether it exists and what it holds
    writer,               \* the write in progress or last made
    \* ---- VCRRecording serialized and parsed (core/format.py) ----
    formatDoc,            \* the recording: its session.interactions
    formatText,           \* the JSON last produced (<<>>: none) and how
    formatLoaded,         \* what load / from_json last returned (<<>>: none)
    \* ---- MCPDiff.compare (diff.py) ----
    diffBaseline,         \* the baseline recording: its interactions
    diffCurrent,          \* the current recording: its interactions
    diffOptions,          \* the keyword arguments of the last compare call
    diffResult,           \* the MCPDiffResult it returned (<<>>: none)
    diffRaised,           \* the exception it raised ("" if none)
    \* ---- StdioTransport and SSETransport (transport/) ----
    stdio,                \* the fields of a StdioTransport, its process
    stdioLog,             \* what the last stop() did to tasks and process
    streams,              \* the two pipes of a StdioTransport and its loops
    sseTransport,         \* the fields of an SSETransport
    transportCall,        \* <<transport, method>> of the last call
    transportRaised,      \* the exception that call raised ("" if none)
    \* ---- threads inside SessionManager.record_interaction ----
    worker,               \* thread -> its position and local values
    \* ---- history of a recorder over several sessions ----
    epoch,                \* what was captured before the last stop()
    \* ---- SSETransport relaying the remote server's events ----
    proxy,                \* the connected clients, their queues and streams
    \* ---- MCPReplayer.get_notifications_for_request ----
    query,                \* the last query and the state it found
    \* ---- every subsystem ----
    steps                 \* number of steps taken so far

recorderVars ==
    <<filterMethods, maxInteractions, pendingTimeout, isRecording,
      initializeCaptured, transportUp, cleanupTask, pendingRequests,
      pendingRequestTimes, notificationBuffer, now, smState, currentRecording,
      interactionCounter, lastCallback, lastCase, forwarded, returned,
      savedFile, raised,
      nextNotif, notifArrival, recLog>>

matcherVars ==
    <<interactions, strategy, requested, sequentialIndex, matcherRaised, lastMatches,
      findLog, resetKind>>

threadVars == <<pc, local, callsLeft, results>>

replayerVars ==
    <<responseOverrides, lastCall, overridesBefore, lastRequest, lastResponse>>

serveVars == <<serving, lastLine, emitted, served, sse>>

sessionVars == <<smCall, smBefore, smLog>>

recordVars == <<requestedStop, recordPc, recordRaised, saveCount>>

fileVars == <<files, writer>>

formatVars == <<formatDoc, formatText, formatLoaded>>

diffVars ==
    <<diffBaseline, diffCurrent, diffOptions, diffResult, diffRaised>>

transportVars ==
    <<stdio, stdioLog, streams, sseTransport, transportCall,
      transportRaised>>

lateVars == <<worker, epoch, proxy, query>>

lifecycleVars ==
    <<sessionVars, recordVars, fileVars, formatVars, diffVars, transportVars,
      lateVars>>

vars ==
    <<recorderVars, matcherVars, threadVars, replayerVars, serveVars,
      lifecycleVars, steps>>

(***************************************************************************)
(* JSON-RPC messages as the transports hand them to the callbacks.         *)
(*   ver    : the "jsonrpc" key                                            *)
(*   id     : the "id" key, 0 when the key is absent                       *)
(*   method : the "method" key, "" when the key is absent                  *)
(*   body   : "result" / "error" when that key is present with a payload   *)
(*            the pydantic models accept, "invalid" when the key is        *)
(*            present with a payload they reject, "none" when neither key  *)
(*            is present                                                   *)
(*   serial : tells server notifications apart (0 otherwise)               *)
(***************************************************************************)
Ids == 1..MaxId
Methods == {"initialize", "tools/list"}

Msg(v, i, m, b, s) == [ver |-> v, id |-> i, method |-> m, body |-> b, serial |-> s]

\* The value a callback returns to make the transport drop the message (None).
Suppress == Msg("", 0, "", "suppress", 0)

ClientMessages ==
    {Msg("2.0", i, m, "none", 0) : i \in Ids, m \in Methods}
        \cup {Msg("2.0", 0, "tools/list", "none", 0),    \* client notification
              Msg("1.0", 1, "tools/list", "none", 0),    \* wrong version
              Msg("2.0", 1, "", "result", 0)}            \* a response, no method

ServerResponses ==
    {Msg("2.0", i, "", "result", 0) : i \in Ids}
        \cup {Msg("2.0", 1, "", "error", 0),
              Msg("2.0", 1, "", "invalid", 0)}      \* e.g. "result": "text"

ServerOddities ==
    {Msg("1.0", 1, "", "result", 0),                     \* wrong version
     Msg("2.0", 0, "", "result", 0),                     \* neither id nor method
     Msg("2.0", 1, "tools/list", "none", 0)}             \* a server request

ServerNotification(n) == Msg("2.0", 0, "tools/list", "none", n)

(***************************************************************************)
(* Dicts.                                                                  *)
(***************************************************************************)
EmptyDict == [k \in {} |-> 0]

DictPut(d, k, v) == [x \in DOMAIN d \cup {k} |-> IF x = k THEN v ELSE d[x]]

DictDel(d, ks) == [x \in DOMAIN d \ ks |-> d[x]]

(***************************************************************************)
(* MCPRecorder._parse_jsonrpc_request: "none" when the message is no       *)
(* request, "raise" when JSONRPCRequest rejects it (the id is required),   *)
(* "ok" otherwise.                                                         *)
(***************************************************************************)
ParseRequest(msg) ==
    IF msg.method = "" \/ msg.ver # "2.0" THEN "none"
    ELSE IF msg.id = 0 THEN "raise"
    ELSE "ok"

(***************************************************************************)
(* MCPRecorder._parse_jsonrpc_response: "notification", "response",        *)
(* "none" (not valid) or "raise" (a pydantic model rejects the payload).   *)
(***************************************************************************)
ParseResponse(msg) ==
    IF msg.ver # "2.0" THEN "none"
    ELSE IF msg.method # "" /\ msg.id = 0 THEN "notification"
    ELSE IF msg.id = 0 THEN "none"
    ELSE IF msg.body = "invalid" THEN "raise"
    ELSE IF msg.body \in {"error", "result"} THEN "response"
    ELSE "none"

(***************************************************************************)
(* SessionManager.                                                         *)
(***************************************************************************)
Request(i, m) == [id |-> i, method |-> m]

\* A VCRInteraction; its timestamp, direction and latency_ms are not modelled.
Interaction(seq, req, resp, notifs) ==
    [sequence |-> seq, request |-> req, response |-> resp,
     notifications |-> notifs]

\* SessionManager.record_interaction raises unless it is recording.
CanRecordInteraction == smState = "recording" /\ currentRecording # <<>>

NextSequenceStuck(counter) == counter

\* self._interaction_counter += 1
NextSequence(counter) == counter + 1

\* add_interaction putting the new interaction first instead of last.
RecordInteractionReversed(req, resp, notifs) ==
    /\ currentRecording' =
          <<[currentRecording[1] EXCEPT !.interactions =
                <<Interaction(interactionCounter, req, resp, notifs)>> \o @]>>
    /\ interactionCounter' = NextSequence(interactionCounter)
    /\ smState' = smState

\* SessionManager.record_interaction, when it does not raise.
RecordInteraction(req, resp, notifs) ==
    /\ currentRecording' =
          <<[currentRecording[1] EXCEPT !.interactions =
                Append(@, Interaction(interactionCounter, req, resp, notifs))]>>
    /\ interactionCounter' = NextSequence(interactionCounter)
    /\ smState' = smState

\* A start_recording that also files the initialize pair as an interaction.
StartRecordingAsInteraction(req, resp) ==
    /\ smState' = "recording"
    /\ interactionCounter' = 1
    /\ currentRecording' =
          <<[initialize_request |-> req, initialize_response |-> resp,
             interactions |-> <<Interaction(0, req, resp, <<>>)>>]>>

\* SessionManager.start_recording, when it does not raise.
StartRecording(req, resp) ==
    /\ smState' = "recording"
    /\ interactionCounter' = 0
    /\ currentRecording' =
          <<[initialize_request |-> req, initialize_response |-> resp,
             interactions |-> <<>>]>>

\* A placeholder with no initialize response in it.
EmptyRecordingUnanswered ==
    [initialize_request |-> Request(0, "initialize"),
     initialize_response |-> "none",
     interactions |-> <<>>]

\* recorder._make_empty_recording
EmptyRecording ==
    [initialize_request |-> Request(0, "initialize"),
     initialize_response |-> "result",
     interactions |-> <<>>]

(***************************************************************************)
(* SessionManager called directly.  Each call notes its name and the       *)
(* state, recording and counter it found; raised and returned hold what    *)
(* the call raised and what stop_recording returned.                       *)
(***************************************************************************)
SessionState ==
    [state |-> smState, recording |-> currentRecording,
     counter |-> interactionCounter]

SessionCall(name) == smCall' = name /\ smBefore' = SessionState

SessionRaise(error) ==
    /\ raised' = error
    /\ UNCHANGED <<smState, currentRecording, interactionCounter, returned,
                   smLog>>

StartRecordingCall(req, resp) ==
    /\ SessionCall("start_recording")
    /\ IF smState = "recording"
       THEN SessionRaise("RuntimeError")
       ELSE /\ StartRecording(req, resp)
            /\ raised' = ""
            /\ smLog' = <<>>
            /\ UNCHANGED returned

StopRecordingCall ==
    /\ SessionCall("stop_recording")
    /\ IF smState # "recording" \/ currentRecording = <<>>
       THEN SessionRaise("RuntimeError")
       ELSE /\ returned' = currentRecording
            /\ smState' = "idle"
            /\ currentRecording' = <<>>
            /\ interactionCounter' = 0
            /\ raised' = ""
            /\ UNCHANGED smLog

\* isList: whether the notifications argument is a list (or None).
RecordInteractionCall(req, resp, isList) ==
    /\ SessionCall("record_interaction")
    /\ interactionCounter < MaxInteractions
    /\ IF ~CanRecordInteraction
       THEN SessionRaise("RuntimeError")
       ELSE IF ~isList
       THEN SessionRaise("ValueError")
       ELSE /\ RecordInteraction(req, resp, <<>>)
            /\ raised' = ""
            /\ smLog' = Append(smLog, req)
            /\ UNCHANGED returned

ResetCall ==
    /\ SessionCall("reset")
    /\ smState' = "idle"
    /\ currentRecording' = <<>>
    /\ interactionCounter' = 0
    /\ raised' = ""
    /\ smLog' = <<>>
    /\ UNCHANGED returned

(***************************************************************************)
(* The path a message takes through MCPRecorder._on_client_message:        *)
(*   "error"      JSONRPCRequest raised (no id); caught by the handler     *)
(*   "unparsable" _parse_jsonrpc_request returned None                     *)
(*   "filtered"   the method is not in filter_methods                      *)
(*   "tracked"    the request is stored as pending                         *)
(***************************************************************************)
ClientCase(msg) ==
    IF ParseRequest(msg) = "raise" THEN "error"
    ELSE IF ParseRequest(msg) = "none" THEN "unparsable"
    ELSE IF filterMethods # {} /\ msg.method \notin filterMethods THEN "filtered"
    ELSE "tracked"

\* The cap compared with > instead of >=.
CapReachedLate ==
    /\ maxInteractions > 0
    /\ Len(currentRecording[1].interactions) > maxInteractions

\* n >= self._max_interactions, for a recorder with a cap
CapReached ==
    /\ maxInteractions > 0
    /\ Len(currentRecording[1].interactions) >= maxInteractions

(***************************************************************************)
(* The path a message takes through MCPRecorder._on_server_message:        *)
(*   "error"         a pydantic model raised while parsing                 *)
(*   "unparsable"    _parse_jsonrpc_response returned None                 *)
(*   "notification"  buffered                                              *)
(*   "unknown"       a response whose id is not pending                    *)
(*   "initialize"    the first initialize response: the session starts     *)
(*   "twice"         start_recording raised: the session is recording      *)
(*   "not_recording" record_interaction (or the cap's len()) raised        *)
(*   "capped"        max_interactions reached: not recorded                *)
(*   "recorded"      record_interaction appended an interaction            *)
(***************************************************************************)
ServerCase(msg) ==
    IF ParseResponse(msg) = "raise" THEN "error"
    ELSE IF ParseResponse(msg) = "none" THEN "unparsable"
    ELSE IF ParseResponse(msg) = "notification" THEN "notification"
    ELSE IF msg.id \notin DOMAIN pendingRequests THEN "unknown"
    ELSE IF pendingRequests[msg.id].method = "initialize" /\ ~initializeCaptured
         THEN IF smState = "recording" THEN "twice" ELSE "initialize"
    ELSE IF ~CanRecordInteraction THEN "not_recording"
    ELSE IF CapReached THEN "capped"
    ELSE "recorded"

(***************************************************************************)
(* What the callbacks return on each path: every return statement of       *)
(* _on_client_message and of _on_server_message returns `message`.         *)
(***************************************************************************)
ClientReturn(case, msg) == msg

ServerReturnCapped(case, msg) == IF case = "capped" THEN Suppress ELSE msg

ServerReturn(case, msg) == msg

\* How the value a callback returned compares with the message it was given.
Returned(msg, ret) ==
    IF ret = msg THEN "unchanged"
    ELSE IF ret = Suppress THEN "suppressed"
    ELSE "changed"

(***************************************************************************)
(* MCPRecorder._on_client_message                                          *)
(***************************************************************************)
OnClientMessage(msg) ==
    /\ transportUp
    /\ lastCallback' = "client"
    /\ lastCase' = ClientCase(msg)
    /\ forwarded' = Returned(msg, ClientReturn(ClientCase(msg), msg))
    /\ IF ClientCase(msg) = "tracked"
       THEN /\ pendingRequests' =
                  DictPut(pendingRequests, msg.id, Request(msg.id, msg.method))
            /\ pendingRequestTimes' = DictPut(pendingRequestTimes, msg.id, now)
       ELSE UNCHANGED <<pendingRequests, pendingRequestTimes>>
    /\ UNCHANGED <<filterMethods, maxInteractions, pendingTimeout, isRecording,
                   initializeCaptured, transportUp, cleanupTask,
                   notificationBuffer, now, smState, currentRecording,
                   interactionCounter, returned, savedFile, raised,
                   nextNotif, notifArrival, recLog>>

(***************************************************************************)
(* MCPRecorder._on_server_message, a server notification: it is appended   *)
(* to the notification buffer.                                             *)
(***************************************************************************)
OnServerNotification ==
    /\ transportUp
    /\ nextNotif <= MaxNotifs
    /\ LET msg == ServerNotification(nextNotif)
       IN  /\ lastCallback' = "server"
           /\ lastCase' = ServerCase(msg)
           /\ forwarded' = Returned(msg, ServerReturn(ServerCase(msg), msg))
           /\ notificationBuffer' = Append(notificationBuffer, msg.serial)
           /\ notifArrival' =
                 DictPut(notifArrival, msg.serial,
                         [at |-> Len(recLog), live |-> smState = "recording"])
    /\ nextNotif' = nextNotif + 1
    /\ UNCHANGED <<filterMethods, maxInteractions, pendingTimeout, isRecording,
                   initializeCaptured, transportUp, cleanupTask,
                   pendingRequests, pendingRequestTimes, now, smState,
                   currentRecording, interactionCounter, returned, savedFile,
                   raised, recLog>>

(***************************************************************************)
(* MCPRecorder._on_server_message, a message that is no notification.      *)
(* A response pops its pending request and drains the notification buffer  *)
(* under the lock, whether or not its id was pending; what follows is      *)
(* inside the try block, so that an exception only ends the handling of    *)
(* this message.  (auto_save_interval is 0, the default: no auto-save.)    *)
(***************************************************************************)
OnServerMessage(msg) ==
    /\ transportUp
    /\ lastCallback' = "server"
    /\ lastCase' = ServerCase(msg)
    /\ forwarded' = Returned(msg, ServerReturn(ServerCase(msg), msg))
    /\ IF ServerCase(msg) \in {"error", "unparsable"}
       THEN UNCHANGED <<pendingRequests, pendingRequestTimes,
                        notificationBuffer, initializeCaptured, smState,
                        currentRecording, interactionCounter, recLog>>
       ELSE /\ pendingRequests' = DictDel(pendingRequests, {msg.id})
            /\ pendingRequestTimes' = DictDel(pendingRequestTimes, {msg.id})
            /\ notificationBuffer' = <<>>
            /\ CASE ServerCase(msg) = "initialize" ->
                      /\ initializeCaptured' = TRUE
                      /\ StartRecording(pendingRequests[msg.id], msg.body)
                      /\ UNCHANGED recLog
                 [] ServerCase(msg) = "twice" ->
                      /\ initializeCaptured' = TRUE
                      /\ UNCHANGED <<smState, currentRecording,
                                     interactionCounter, recLog>>
                 [] ServerCase(msg) = "recorded" ->
                      /\ RecordInteraction(pendingRequests[msg.id], msg.body,
                                           notificationBuffer)
                      /\ recLog' = Append(recLog, notificationBuffer)
                      /\ UNCHANGED initializeCaptured
                 [] OTHER ->
                      UNCHANGED <<initializeCaptured, smState, currentRecording,
                                  interactionCounter, recLog>>
    /\ UNCHANGED <<filterMethods, maxInteractions, pendingTimeout, isRecording,
                   transportUp, cleanupTask, now, returned, savedFile, raised,
                   nextNotif, notifArrival>>

(***************************************************************************)
(* MCPRecorder.start.  The recording flags are set before the transport    *)
(* is started; the pending requests and the notification buffer are not    *)
(* touched.                                                                *)
(***************************************************************************)
Start ==
    /\ IF isRecording
       THEN /\ raised' = "RuntimeError"
            /\ UNCHANGED <<isRecording, initializeCaptured, transportUp,
                           cleanupTask>>
       ELSE /\ isRecording' = TRUE
            /\ initializeCaptured' = FALSE
            /\ \E started \in BOOLEAN :
                  IF started
                  THEN /\ transportUp' = TRUE
                       /\ cleanupTask' = (pendingTimeout > 0)
                       /\ raised' = ""
                  ELSE /\ raised' = "ConnectionError"
                       /\ UNCHANGED <<transportUp, cleanupTask>>
    /\ UNCHANGED <<filterMethods, maxInteractions, pendingTimeout,
                   pendingRequests, pendingRequestTimes, notificationBuffer,
                   now, smState, currentRecording, interactionCounter, lastCallback, lastCase,
                   forwarded, returned, savedFile, nextNotif, notifArrival,
                   recLog>>

(***************************************************************************)
(* MCPRecorder.stop: cancel the sweep, stop the transport, take the        *)
(* recording from the session manager (SessionManager.stop_recording) or   *)
(* build the placeholder, write the file, clear the recording flag.        *)
(***************************************************************************)
Stop ==
    IF ~isRecording
    THEN /\ raised' = "RuntimeError"
         /\ UNCHANGED <<filterMethods, maxInteractions, pendingTimeout,
                        isRecording, initializeCaptured, transportUp,
                        cleanupTask, pendingRequests, pendingRequestTimes,
                        notificationBuffer, now, smState, currentRecording,
                        interactionCounter, lastCallback, lastCase, forwarded, returned,
                        savedFile, nextNotif, notifArrival, recLog>>
    ELSE /\ cleanupTask' = FALSE
         /\ transportUp' = FALSE
         /\ smState' = "idle"
         /\ currentRecording' = <<>>
         /\ interactionCounter' = IF smState = "recording" THEN 0
                                  ELSE interactionCounter
         /\ LET recording == IF smState = "recording" THEN currentRecording[1]
                             ELSE EmptyRecording
            IN  \E written \in BOOLEAN :
                   IF written
                   THEN /\ savedFile' = <<recording>>
                        /\ isRecording' = FALSE
                        /\ returned' = <<recording>>
                        /\ raised' = ""
                   ELSE /\ raised' = "IOError"
                        /\ UNCHANGED <<savedFile, isRecording, returned>>
         /\ UNCHANGED <<filterMethods, maxInteractions, pendingTimeout,
                        initializeCaptured, pendingRequests,
                        pendingRequestTimes, notificationBuffer, now, lastCallback, lastCase,
                        forwarded, nextNotif, notifArrival, recLog>>

(***************************************************************************)
(* Time passes.                                                            *)
(***************************************************************************)
Tick ==
    /\ now + TickStep <= MaxTime
    /\ now' = now + TickStep
    /\ UNCHANGED <<filterMethods, maxInteractions, pendingTimeout, isRecording,
                   initializeCaptured, transportUp, cleanupTask,
                   pendingRequests, pendingRequestTimes, notificationBuffer,
                   smState, currentRecording, interactionCounter, lastCallback, lastCase,
                   forwarded, returned, savedFile, raised, nextNotif,
                   notifArrival, recLog>>

\* A sweep that evicts every pending request, whatever its age.
StaleEverything == DOMAIN pendingRequestTimes

(***************************************************************************)
(* One round of MCPRecorder._pending_cleanup_loop:                         *)
(* _evict_stale_pending_requests.                                          *)
(***************************************************************************)
Stale == {i \in DOMAIN pendingRequestTimes :
             pendingRequestTimes[i] < now - pendingTimeout}

CleanupSweep ==
    /\ cleanupTask
    /\ isRecording
    /\ Stale # {}
    /\ pendingRequests' = DictDel(pendingRequests, Stale)
    /\ pendingRequestTimes' = DictDel(pendingRequestTimes, Stale)
    /\ UNCHANGED <<filterMethods, maxInteractions, pendingTimeout, isRecording,
                   initializeCaptured, transportUp, cleanupTask,
                   notificationBuffer, now, smState, currentRecording,
                   interactionCounter, lastCallback, lastCase, forwarded, returned, savedFile,
                   raised, nextNotif, notifArrival, recLog>>

(***************************************************************************)
(* The recorder after construction (MCPRecorder.__init__,                  *)
(* SessionManager.__init__), for some configuration.                       *)
(***************************************************************************)
(***************************************************************************)
(* MCPRecorder.record: start(), then wait until _is_recording is cleared   *)
(* or _requested_stop is set, then stop() from the finally block.  The     *)
(* task that called record() is suspended while it waits, so request_stop  *)
(* and stop() can be called from other tasks in between.                   *)
(***************************************************************************)
\* One more completed stop() if this step completes one.
Saved(count) == IF isRecording /\ ~isRecording' THEN count + 1 ELSE count

RecordCall ==
    /\ recordPc # "waiting"
    /\ saveCount' = 0
    /\ IF isRecording
       THEN /\ recordPc' = "refused"
            /\ recordRaised' = "RuntimeError"
            /\ UNCHANGED <<recorderVars, requestedStop>>
       ELSE /\ Start
            /\ requestedStop' = FALSE
            /\ recordPc' = IF raised' = "" THEN "waiting" ELSE "refused"
            /\ recordRaised' = raised'

RequestStop ==
    /\ requestedStop' = TRUE
    /\ UNCHANGED <<recorderVars, recordPc, recordRaised, saveCount>>

\* stop() called by another task.
ExternalStop ==
    /\ Stop
    /\ saveCount' = Saved(saveCount)
    /\ UNCHANGED <<requestedStop, recordPc, recordRaised>>

\* The wait loop ends and the finally block returns what stop() returns.
RecordFinish ==
    /\ recordPc = "waiting"
    /\ ~isRecording \/ requestedStop
    /\ Stop
    /\ saveCount' = Saved(saveCount)
    /\ recordPc' = "done"
    /\ recordRaised' = raised'
    /\ UNCHANGED requestedStop

(***************************************************************************)
(* Writing a recording to a file.  A file holds the text written to it so  *)
(* far; json.dump writes the text of a recording in FileChunks pieces.     *)
(* stop() writes to a temporary path and renames it over the destination;  *)
(* VCRRecording.save() opens the destination itself.  A write can fail     *)
(* (IOError) and the process can die at any point between two steps.       *)
(***************************************************************************)
StopPath == "out.vcr"
SavePath == "rec.vcr"

\* The destination itself taken as the temporary path.
TmpPathInPlace(path) == path

\* output_path.with_suffix(output_path.suffix + ".tmp")
TmpPath(path) == path \o ".tmp"

Paths == {StopPath, SavePath, TmpPath(StopPath), TmpPath(SavePath)}

Versions == 1..MaxVersions

Absent == [exists |-> FALSE, content |-> <<>>]
File(content) == [exists |-> TRUE, content |-> content]

\* json.dump(recording.model_dump(mode="json"), f, indent=2, default=str)
Dump(version) == [k \in 1..FileChunks |-> <<version, k>>]

\* VCRRecording.load succeeds on the file.
Loadable(file) ==
    file.exists /\ \E version \in 0..MaxVersions : file.content = Dump(version)

Writer(op, at, path, data, before) ==
    [op |-> op, pc |-> at, path |-> path, data |-> data, before |-> before]

NoWriter == Writer("", "idle", "", 0, Absent)

\* f.write of the next piece of the text.
WriteChunk(path) ==
    /\ writer.pc = "writing"
    /\ Len(files[path].content) < FileChunks
    /\ files' = [files EXCEPT ![path].content =
                    Append(@, Dump(writer.data)[Len(@) + 1])]
    /\ UNCHANGED writer

\* stop(): open(tmp_path, "w")
StopOpen(data) ==
    /\ writer.pc # "writing"
    /\ \E opened \in BOOLEAN :
          IF opened
          THEN /\ files' = [files EXCEPT ![TmpPath(StopPath)] = File(<<>>)]
               /\ writer' = Writer("stop", "writing", StopPath, data,
                                   files[StopPath])
          ELSE /\ writer' = Writer("stop", "failed", StopPath, data,
                                   files[StopPath])
               /\ UNCHANGED files

StopWrite == writer.op = "stop" /\ WriteChunk(TmpPath(StopPath))

\* stop(): the with block ends, then os.replace(tmp_path, output_path)
StopReplace ==
    /\ writer.op = "stop"
    /\ writer.pc = "writing"
    /\ Len(files[TmpPath(StopPath)].content) = FileChunks
    /\ \E replaced \in BOOLEAN :
          IF replaced
          THEN /\ files' = [path \in Paths |->
                              IF path = StopPath THEN files[TmpPath(StopPath)]
                              ELSE IF path = TmpPath(StopPath) THEN Absent
                              ELSE files[path]]
               /\ writer' = [writer EXCEPT !.pc = "done"]
          ELSE /\ writer' = [writer EXCEPT !.pc = "failed"]
               /\ UNCHANGED files

\* VCRRecording.save(): open(path, "w")
SaveOpen(data) ==
    /\ writer.pc # "writing"
    /\ \E opened \in BOOLEAN :
          IF opened
          THEN /\ files' = [files EXCEPT ![SavePath] = File(<<>>)]
               /\ writer' = Writer("save", "writing", SavePath, data,
                                   files[SavePath])
          ELSE /\ writer' = Writer("save", "failed", SavePath, data,
                                   files[SavePath])
               /\ UNCHANGED files

SaveWrite == writer.op = "save" /\ WriteChunk(SavePath)

\* VCRRecording.save(): the with block ends
SaveClose ==
    /\ writer.op = "save"
    /\ writer.pc = "writing"
    /\ Len(files[SavePath].content) = FileChunks
    /\ writer' = [writer EXCEPT !.pc = "done"]
    /\ UNCHANGED files

\* f.write raises: the with block closes the file, IOError leaves the call.
WriteError ==
    /\ writer.pc = "writing"
    /\ writer' = [writer EXCEPT !.pc = "failed"]
    /\ UNCHANGED files

\* The process dies.
Crash ==
    /\ writer.pc = "writing"
    /\ writer' = [writer EXCEPT !.pc = "crashed"]
    /\ UNCHANGED files

(***************************************************************************)
(* VCRRecording to JSON and back.  A JSON value is a node: its type t, the *)
(* number n of an int or float, the text s of a string, the items of an    *)
(* array, the <<key, value>> fields of an object.  Python's json keeps an  *)
(* int an int and a float a float.  Of a recording the model keeps         *)
(* session.interactions, of an interaction its sequence, timestamp,        *)
(* request id and method, response and notifications.                      *)
(***************************************************************************)
JNode(t, n, str, items, fields) ==
    [t |-> t, n |-> n, s |-> str, items |-> items, fields |-> fields]

JNull == JNode("null", 0, "", <<>>, {})
JInt(n) == JNode("int", n, "", <<>>, {})
JStr(str) == JNode("str", 0, str, <<>>, {})
JArr(items) == JNode("arr", 0, "", items, {})
JObj(fields) == JNode("obj", 0, "", <<>>, fields)

Field(node, key) == (CHOOSE field \in node.fields : field[1] = key)[2]

\* A JSON-RPC id: Union[str, int, float], here an int or a str.
IdValue(kind, n, str) == [kind |-> kind, n |-> n, s |-> str]
FormatIds == {IdValue("int", 1, ""), IdValue("str", 0, "1")}

DumpId(i) == JNode(i.kind, i.n, i.s, <<>>, {})
LoadId(node) == IdValue(node.t, node.n, node.s)

\* datetime.isoformat() and its parse by pydantic
Timestamps == {1, 2}
IsoFormat(time) ==
    IF time = 1 THEN "2024-01-01T00:00:01" ELSE "2024-01-01T00:00:02"
FromIsoFormat(str) == CHOOSE time \in Timestamps : IsoFormat(time) = str

\* JSONRPCNotification: its method, and a serial that tells two apart
Notification(serial) == [method |-> "notifications/progress", serial |-> serial]

DumpNotification(notif) ==
    JObj({<<"jsonrpc", JStr("2.0")>>, <<"method", JStr(notif.method)>>,
          <<"params", JObj({<<"serial", JInt(notif.serial)>>})>>})

LoadNotification(node) ==
    [method |-> Field(node, "method").s,
     serial |-> Field(Field(node, "params"), "serial").n]

\* VCRInteraction; response is <<>> (None) or <<body>>.
FormatInteraction(seq, time, i, response, notifs) ==
    [sequence |-> seq, timestamp |-> time,
     request |-> [id |-> i, method |-> "tools/list"],
     response |-> response, notifications |-> notifs]

\* VCRInteraction.model_dump(mode="json")
DumpInteraction(x) ==
    JObj({<<"sequence", JInt(x.sequence)>>,
          <<"timestamp", JStr(IsoFormat(x.timestamp))>>,
          <<"request", JObj({<<"jsonrpc", JStr("2.0")>>,
                             <<"id", DumpId(x.request.id)>>,
                             <<"method", JStr(x.request.method)>>,
                             <<"params", JNull>>})>>,
          <<"response",
            IF x.response = <<>> THEN JNull
            ELSE JObj({<<"jsonrpc", JStr("2.0")>>,
                       <<"id", DumpId(x.request.id)>>,
                       <<x.response[1], JObj({})>>})>>,
          <<"notifications",
            JArr([k \in 1..Len(x.notifications) |->
                     DumpNotification(x.notifications[k])])>>})

\* The key of a response object that holds its body.
BodyKey(node) ==
    IF \E field \in node.fields : field[1] = "result" THEN "result" ELSE "error"

\* VCRInteraction.model_validate
LoadInteraction(node) ==
    [sequence |-> Field(node, "sequence").n,
     timestamp |-> FromIsoFormat(Field(node, "timestamp").s),
     request |-> [id |-> LoadId(Field(Field(node, "request"), "id")),
                  method |-> Field(Field(node, "request"), "method").s],
     response |-> IF Field(node, "response").t = "null" THEN <<>>
                  ELSE <<BodyKey(Field(node, "response"))>>,
     notifications |->
         [k \in 1..Len(Field(node, "notifications").items) |->
             LoadNotification(Field(node, "notifications").items[k])]]

\* self.model_dump(mode="json", by_alias=False), then json.dump / json.dumps
DumpRecording(doc) ==
    JObj({<<"format_version", JStr("1.0.0")>>,
          <<"session",
            JObj({<<"interactions",
                    JArr([k \in 1..Len(doc) |-> DumpInteraction(doc[k])])>>})>>})

\* The interactions read back last to first.
LoadRecordingReversed(node) ==
    LET items == Field(Field(node, "session"), "interactions").items
    IN  [k \in 1..Len(items) |-> LoadInteraction(items[Len(items) + 1 - k])]

\* json.load / json.loads, then cls.model_validate(data)
LoadRecording(node) ==
    LET items == Field(Field(node, "session"), "interactions").items
    IN  [k \in 1..Len(items) |-> LoadInteraction(items[k])]

Text(via, node) == [via |-> via, node |-> node]

\* VCRRecording.save
Save ==
    /\ formatText' = <<Text("file", DumpRecording(formatDoc))>>
    /\ UNCHANGED <<formatDoc, formatLoaded>>

\* VCRRecording.load of the file save wrote
Load ==
    /\ formatText # <<>>
    /\ formatText[1].via = "file"
    /\ formatLoaded' = <<LoadRecording(formatText[1].node)>>
    /\ UNCHANGED <<formatDoc, formatText>>

\* VCRRecording.to_json
ToJson ==
    /\ formatText' = <<Text("string", DumpRecording(formatDoc))>>
    /\ UNCHANGED <<formatDoc, formatLoaded>>

\* VCRRecording.from_json of the string to_json returned
FromJson ==
    /\ formatText # <<>>
    /\ formatText[1].via = "string"
    /\ formatLoaded' = <<LoadRecording(formatText[1].node)>>
    /\ UNCHANGED <<formatDoc, formatText>>

RecorderInit ==
    /\ filterMethods \in {{}, {"initialize"}}
    /\ maxInteractions \in {0, 1}
    /\ pendingTimeout = PendingTimeout
    /\ isRecording = FALSE
    /\ initializeCaptured = FALSE
    /\ transportUp = FALSE
    /\ cleanupTask = FALSE
    /\ pendingRequests = EmptyDict
    /\ pendingRequestTimes = EmptyDict
    /\ notificationBuffer = <<>>
    /\ now = 0
    /\ smState = "idle"
    /\ currentRecording = <<>>
    /\ interactionCounter = 0
    /\ lastCallback = ""
    /\ lastCase = ""
    /\ forwarded = ""
    /\ returned = <<>>
    /\ savedFile = <<>>
    /\ raised = ""
    /\ nextNotif = 1
    /\ notifArrival = EmptyDict
    /\ recLog = <<>>

(***************************************************************************)
(* JSON values of the "params" key: None, a dict (a set of <<key, value>>  *)
(* pairs with distinct keys) or a list.  Two params are equal in Python    *)
(* exactly when the records are equal.                                     *)
(***************************************************************************)
PNull == [kind |-> "null", fields |-> {}, items |-> <<>>]

PObject(f) == [kind |-> "object", fields |-> f, items |-> <<>>]

PArray(a) == [kind |-> "array", fields |-> {}, items |-> a]

ParamKeys == {"a", "b"}

ParamValues == {1, 2}

Dicts ==
    {f \in SUBSET (ParamKeys \X ParamValues) :
        \A x \in f, y \in f : x[1] = y[1] => x = y}

Params ==
    {PNull} \cup {PObject(f) : f \in Dicts} \cup {PArray(<<>>), PArray(<<1>>)}

\* key in d, and d[key]
HasKey(d, key) == \E f \in d.fields : f[1] = key

Get(d, key) == (CHOOSE f \in d.fields : f[1] = key)[2]

(***************************************************************************)
(* JSONRPCRequest and VCRInteraction (core/format.py) as the matcher and   *)
(* the replayer read them.  The response of an interaction is              *)
(*   "none"   : response is None                                           *)
(*   "result" : a response whose result is set                             *)
(*   "error"  : a response whose error is set                              *)
(*   "both"   : a response with result and error both set                  *)
(*   "empty"  : a response with result None and error None                 *)
(***************************************************************************)
ReplayMethods == {"tools/list", "tools/call"}

JSONRPCRequest(i, m, p) == [id |-> i, method |-> m, params |-> p]

ResponseKinds == {"none", "result", "error", "both", "empty"}

VCRInteraction(m, p, r) ==
    [request |-> JSONRPCRequest(1, m, p), response |-> r,
     notifications |-> <<>>]

\* request.model_dump(exclude={"jsonrpc", "id"})
ModelDump(request) == [method |-> request.method, params |-> request.params]

\* All lists of 1..n elements of S.
Lists(S, n) == UNION {[1..k -> S] : k \in 1..n}

(***************************************************************************)
(* RequestMatcher (core/matcher.py).  An interaction of the list handed    *)
(* to the matcher is named by its position 1..Len; 0 is None.              *)
(***************************************************************************)
VALID_STRATEGIES ==
    {"exact", "method", "method_and_params", "fuzzy", "sequential"}

\* The names a caller may ask for.
StrategyNames == VALID_STRATEGIES \cup {"subset"}

\* The positions of ints in recorded order: "for interaction in interactions".
Positions(ints) == [i \in 1..Len(ints) |-> i]

MatchSequentialNoAdvance(ints, idx) ==
    IF idx < Len(ints)
    THEN [matches |-> <<idx + 1>>, index |-> idx]
    ELSE [matches |-> <<>>, index |-> idx]

MatchSequential(ints, idx) ==
    IF idx < Len(ints)
    THEN [matches |-> <<idx + 1>>, index |-> idx + 1]
    ELSE [matches |-> <<>>, index |-> idx]

MatchExact(request, ints) ==
    SelectSeq(Positions(ints), LAMBDA i : ModelDump(request) = ModelDump(ints[i].request))

MatchMethod(request, ints) ==
    SelectSeq(Positions(ints), LAMBDA i : ints[i].request.method = request.method)

MatchMethodAndParams(request, ints) ==
    SelectSeq(Positions(ints), LAMBDA i : /\ ints[i].request.method = request.method
                              /\ ints[i].request.params = request.params)

IsParamsSubset(request_params, recorded_params) ==
    IF request_params.kind = "null" /\ recorded_params.kind = "null" THEN TRUE
    ELSE IF (request_params.kind = "null") # (recorded_params.kind = "null")
    THEN FALSE
    ELSE IF request_params.kind = "object" /\ recorded_params.kind = "object"
    THEN \A f \in request_params.fields :
            /\ HasKey(recorded_params, f[1])
            /\ Get(recorded_params, f[1]) = f[2]
    ELSE IF request_params.kind = "array" /\ recorded_params.kind = "array"
    THEN request_params.items = recorded_params.items
    ELSE request_params = recorded_params

MatchFuzzy(request, ints) ==
    SelectSeq(Positions(ints), LAMBDA i :
        /\ ints[i].request.method = request.method
        /\ IsParamsSubset(request.params, ints[i].request.params))

\* find_all_matches: the matches, the cursor afterwards, the exception.
FindAllMatches(strat, request, ints, idx) ==
    CASE strat = "sequential" ->
            [matches |-> MatchSequential(ints, idx).matches,
             index |-> MatchSequential(ints, idx).index, raised |-> ""]
      [] strat = "exact" ->
            [matches |-> MatchExact(request, ints), index |-> idx, raised |-> ""]
      [] strat = "method" ->
            [matches |-> MatchMethod(request, ints), index |-> idx, raised |-> ""]
      [] strat = "method_and_params" ->
            [matches |-> MatchMethodAndParams(request, ints), index |-> idx,
             raised |-> ""]
      [] strat = "fuzzy" ->
            [matches |-> MatchFuzzy(request, ints), index |-> idx, raised |-> ""]
      [] OTHER ->
            [matches |-> <<>>, index |-> idx, raised |-> "ValueError"]

\* matches[0] if matches else None
First(matches) == IF matches # <<>> THEN matches[1] ELSE 0

\* RequestMatcher(strategy=name)
NewMatcher(name) ==
    /\ strategy = ""
    /\ requested' = name
    /\ IF name \in VALID_STRATEGIES
       THEN /\ strategy' = name
            /\ sequentialIndex' = 0
            /\ matcherRaised' = ""
       ELSE /\ matcherRaised' = "ValueError"
            /\ UNCHANGED <<strategy, sequentialIndex>>
    /\ UNCHANGED <<interactions, lastMatches, findLog, resetKind>>

\* matcher.find_match(request, interactions)
FindMatch(request) ==
    /\ strategy # ""
    /\ Len(findLog) < MaxCalls
    /\ LET r == FindAllMatches(strategy, request, interactions, sequentialIndex)
       IN  /\ sequentialIndex' = r.index
           /\ matcherRaised' = r.raised
           /\ lastMatches' = r.matches
           /\ findLog' = Append(findLog, [request |-> request,
                                          matches |-> r.matches,
                                          match |-> First(r.matches)])
    /\ UNCHANGED <<interactions, strategy, requested, resetKind>>

\* matcher.find_all_matches(request, interactions)
FindAll(request) ==
    /\ strategy # ""
    /\ Len(findLog) < MaxSubsetCalls
    /\ LET r == FindAllMatches(strategy, request, interactions, sequentialIndex)
       IN  /\ sequentialIndex' = r.index
           /\ matcherRaised' = r.raised
           /\ lastMatches' = r.matches
           /\ findLog' = Append(findLog, [request |-> request,
                                          matches |-> r.matches,
                                          match |-> 0])
    /\ UNCHANGED <<interactions, strategy, requested, resetKind>>

\* matcher.reset_sequential_index()
ResetSequentialIndex ==
    /\ strategy # ""
    /\ sequentialIndex' = 0
    /\ matcherRaised' = ""
    /\ resetKind' = "reset_sequential_index"
    /\ findLog' = <<>>
    /\ UNCHANGED <<interactions, strategy, requested, lastMatches>>

\* matcher.reset(): RequestMatcher defines no attribute of that name, so the
\* call raises AttributeError and the matcher is as it was.
Reset ==
    /\ strategy # ""
    /\ matcherRaised' = "AttributeError"
    /\ resetKind' = "reset"
    /\ findLog' = <<>>
    /\ UNCHANGED <<interactions, strategy, requested, sequentialIndex,
                   lastMatches>>

(***************************************************************************)
(* Threads calling find_match on one sequential matcher.  The matcher      *)
(* takes no lock, so the reads and the write of self._sequential_index in  *)
(* _match_sequential are separate steps that threads may interleave:       *)
(*   "check" : if self._sequential_index < len(interactions)               *)
(*   "load"  : match = interactions[self._sequential_index]                *)
(*   "read"  : the read of  self._sequential_index += 1                    *)
(*   "write" : the write of self._sequential_index += 1, and the return    *)
(***************************************************************************)
Threads == 1..NumThreads

\* What a finished call gave its caller.
Outcome(m, e) == [match |-> m, raised |-> e]

Finish(t, outcome) ==
    /\ results' = [results EXCEPT ![t] = Append(@, outcome)]
    /\ pc' = [pc EXCEPT ![t] = "idle"]

ThreadCall(t) ==
    /\ pc[t] = "idle"
    /\ callsLeft[t] > 0
    /\ callsLeft' = [callsLeft EXCEPT ![t] = @ - 1]
    /\ pc' = [pc EXCEPT ![t] = "check"]
    /\ UNCHANGED <<local, results, sequentialIndex>>

ThreadCheck(t) ==
    /\ pc[t] = "check"
    /\ IF sequentialIndex < Len(interactions)
       THEN pc' = [pc EXCEPT ![t] = "load"] /\ UNCHANGED results
       ELSE Finish(t, Outcome(0, ""))
    /\ UNCHANGED <<local, callsLeft, sequentialIndex>>

ThreadLoad(t) ==
    /\ pc[t] = "load"
    /\ IF sequentialIndex < Len(interactions)
       THEN /\ local' = [local EXCEPT ![t].match = sequentialIndex + 1]
            /\ pc' = [pc EXCEPT ![t] = "read"]
            /\ UNCHANGED results
       ELSE /\ Finish(t, Outcome(0, "IndexError"))
            /\ UNCHANGED local
    /\ UNCHANGED <<callsLeft, sequentialIndex>>

ThreadRead(t) ==
    /\ pc[t] = "read"
    /\ local' = [local EXCEPT ![t].index = sequentialIndex]
    /\ pc' = [pc EXCEPT ![t] = "write"]
    /\ UNCHANGED <<callsLeft, results, sequentialIndex>>

ThreadWrite(t) ==
    /\ pc[t] = "write"
    /\ sequentialIndex' = local[t].index + 1
    /\ Finish(t, Outcome(local[t].match, ""))
    /\ local' = [local EXCEPT ![t] = [match |-> 0, index |-> 0]]
    /\ UNCHANGED callsLeft

(***************************************************************************)
(* MCPReplayer (replayer.py).  A request is the dict handle_request is     *)
(* given: its "id" is an integer, absent / null, or a JSON array; its      *)
(* "method" is "" when the key is absent.                                  *)
(***************************************************************************)
IdInt(n) == [kind |-> "int", val |-> n]

IdNone == [kind |-> "null", val |-> 0]

IdList == [kind |-> "array", val |-> 1]

RawIds == {IdInt(n) : n \in Ids} \cup {IdNone, IdList}

RawRequest(i, m, p) == [id |-> i, method |-> m, params |-> p]

ReplayRequests ==
    {RawRequest(i, m, PNull) : i \in RawIds, m \in ReplayMethods \cup {""}}

\* What handle_request gave its caller: the path taken through the
\* handler, and the keys of the response dict ("id": IdNone when the key is
\* absent; body: which of "result" / "error" is present; the error code).
Response(path, i, body, code) ==
    [path |-> path, id |-> i, body |-> body, code |-> code]

\* _error_response(msg_id, message, code)
ErrorResponse(path, msg_id, code) == Response(path, msg_id, "error", code)

InternalError == -32603

MethodNotFound == -32601

\* JSONRPCRequest(jsonrpc="2.0", id=msg_id, method=method, params=params)
\* passes validation.
Validates(request) == request.id.kind = "int" /\ request.method # ""

\* The keys of the response built from a recorded response.
RecordedBody(r) ==
    IF r \in {"result", "both"} THEN "result"
    ELSE IF r = "error" THEN "error"
    ELSE "none"

\* The response dicts given to set_response_override in this model: they
\* need not repeat the id they are registered under.
OverrideResponses ==
    {Response("override", IdInt(1), "result", 0),
     Response("override", IdNone, "error", InternalError)}

PopOverrideKept(overrides, msg_id) == overrides

\* self._response_overrides.pop(msg_id): the dict afterwards
PopOverride(overrides, msg_id) == DictDel(overrides, {msg_id})

\* What _handle_request_with_interaction leaves behind: the response dict
\* (or the exception), the matched interaction (0: None), the matcher's
\* cursor and the overrides afterwards.
Handled(response, interaction, index, overrides) ==
    [response |-> response, interaction |-> interaction, index |-> index,
     overrides |-> overrides]

\* _handle_request_with_interaction(request), for a request that is a dict
HandleRequestWithInteraction(request) ==
    IF request.id.kind = "array"
    THEN \* msg_id in self._response_overrides: unhashable type
         Handled(Response("raised", IdNone, "none", 0), 0, sequentialIndex,
                 responseOverrides)
    ELSE IF request.id \in DOMAIN responseOverrides
    THEN Handled(responseOverrides[request.id], 0, sequentialIndex,
                 PopOverride(responseOverrides, request.id))
    ELSE IF ~Validates(request)
    THEN Handled(ErrorResponse("unparsable", request.id, InternalError), 0,
                 sequentialIndex, responseOverrides)
    ELSE LET r == FindAllMatches(strategy,
                     JSONRPCRequest(request.id.val, request.method,
                                    request.params),
                     interactions, sequentialIndex)
             m == First(r.matches)
         IN  IF m = 0
             THEN Handled(ErrorResponse("no_match", request.id,
                                        MethodNotFound),
                          0, r.index, responseOverrides)
             ELSE IF interactions[m].response = "none"
             THEN Handled(ErrorResponse("no_response", request.id,
                                        InternalError),
                          m, r.index, responseOverrides)
             ELSE Handled(Response("matched", request.id,
                                   RecordedBody(interactions[m].response), 0),
                          m, r.index, responseOverrides)

\* handle_request(request)
HandleRequest(request) ==
    LET h == HandleRequestWithInteraction(request)
    IN  /\ lastCall' = "handle_request"
        /\ lastRequest' = <<request>>
        /\ lastResponse' = <<h.response>>
        /\ overridesBefore' = responseOverrides
        /\ responseOverrides' = h.overrides
        /\ sequentialIndex' = h.index

\* set_response_override(msg_id, response)
SetResponseOverride(i, response) ==
    /\ lastCall' = "set_response_override"
    /\ responseOverrides' = DictPut(responseOverrides, IdInt(i), response)
    /\ UNCHANGED <<lastRequest, lastResponse, overridesBefore, sequentialIndex>>

\* clear_response_overrides()
ClearResponseOverrides ==
    /\ lastCall' = "clear_response_overrides"
    /\ responseOverrides' = EmptyDict
    /\ UNCHANGED <<lastRequest, lastResponse, overridesBefore, sequentialIndex>>

(***************************************************************************)
(* Serving: serve_stdio, the SSE message endpoint and                      *)
(* handle_request_async.  What a server writes is a sequence of events: a  *)
(* recorded notification (named by its number) or a response dict.         *)
(***************************************************************************)
NoResponse == Response("", IdNone, "none", 0)

NoRequest == RawRequest(IdNone, "", PNull)

NotificationEvent(n) ==
    [kind |-> "notification", n |-> n, response |-> NoResponse]

ResponseEvent(r) == [kind |-> "response", n |-> 0, response |-> r]

\* An interaction recorded with notifications.
Notified(interaction, notifs) ==
    [interaction EXCEPT !.notifications = notifs]

\* One line of stdin or one POST body: text that is not JSON ("invalid"),
\* JSON that is no object, e.g. [1] or 5 ("array"), or a request dict.
Data(kind, request) == [kind |-> kind, request |-> request]

ServeRequests ==
    {RawRequest(i, m, PNull) : i \in {IdInt(1), IdList}, m \in ReplayMethods}

ServeInputs ==
    {Data("invalid", NoRequest), Data("array", NoRequest)}
        \cup {Data("request", r) : r \in ServeRequests}

\* The response and the interaction a server keeps of a handled request.
Served(h) == [response |-> h.response, interaction |-> h.interaction]

NotServed == [response |-> NoResponse, interaction |-> 0]

\* The notifications of interaction k of the recording (none for None).
NotificationsOf(k) ==
    IF k = 0 THEN <<>> ELSE interactions[k].notifications

EmissionResponseFirst(h) ==
    <<ResponseEvent(h.response)>>
        \o [j \in 1..Len(NotificationsOf(h.interaction)) |->
                NotificationEvent(NotificationsOf(h.interaction)[j])]

\* What serve_stdio and _handle_sse_message write for a handled request:
\* "for notification in interaction.notifications: ..." and then the
\* response.
Emission(h) ==
    [j \in 1..Len(NotificationsOf(h.interaction)) |->
        NotificationEvent(NotificationsOf(h.interaction)[j])]
        \o <<ResponseEvent(h.response)>>

\* The except branch of both servers:
\* _error_response(request.get("id"), f"Internal error: {e}")
InternalErrorEvent(request) ==
    ResponseEvent(ErrorResponse("internal", request.id, InternalError))

\* What a server writes for a request dict.
Written(request, h) ==
    IF h.response.path = "raised"
    THEN <<InternalErrorEvent(request)>>
    ELSE Emission(h)

\* serve_stdio: one round of the loop on a line of input.
StdioLine(line) ==
    /\ serving = "running"
    /\ lastCall' = "serve_stdio"
    /\ lastLine' = line.kind
    /\ UNCHANGED <<lastRequest, lastResponse, overridesBefore, sse>>
    /\ CASE line.kind = "invalid" ->
              \* json.JSONDecodeError: continue
              /\ emitted' = <<>>
              /\ served' = NotServed
              /\ UNCHANGED <<serving, sequentialIndex, responseOverrides>>
         [] line.kind = "array" ->
              \* request.get raises AttributeError in the handler and again
              \* in the except branch: the outer except ends the loop
              /\ serving' = "crashed"
              /\ emitted' = <<>>
              /\ served' = NotServed
              /\ UNCHANGED <<sequentialIndex, responseOverrides>>
         [] line.kind = "request" ->
              LET h == HandleRequestWithInteraction(line.request)
              IN  /\ emitted' = Written(line.request, h)
                  /\ served' = Served(h)
                  /\ sequentialIndex' = h.index
                  /\ responseOverrides' = h.overrides
                  /\ UNCHANGED serving

\* serve_stdio: readline returns "" (end of input).
StdioEof ==
    /\ serving = "running"
    /\ serving' = "eof"
    /\ lastCall' = "serve_stdio"
    /\ lastLine' = "eof"
    /\ emitted' = <<>>
    /\ served' = NotServed
    /\ UNCHANGED <<lastRequest, lastResponse, overridesBefore, sse,
                   sequentialIndex, responseOverrides>>

\* handle_request_async(request): the response is returned; the method
\* writes nothing and calls nothing that could.
HandleRequestAsync(request) ==
    LET h == HandleRequestWithInteraction(request)
    IN  /\ serving = "direct"
        /\ lastCall' = "handle_request_async"
        /\ lastRequest' = <<request>>
        /\ lastResponse' = <<h.response>>
        /\ overridesBefore' = responseOverrides
        /\ responseOverrides' = h.overrides
        /\ sequentialIndex' = h.index
        /\ emitted' = <<>>
        /\ served' = Served(h)
        /\ UNCHANGED <<serving, lastLine, sse>>

\* The handlers of POST /message that may be in progress at once.
Handlers == {1, 2}

Handler(state, data, h, plan, sent) ==
    [state |-> state, data |-> data, served |-> h, plan |-> plan,
     sent |-> sent]

NoHandler == Handler("idle", Data("", NoRequest), NotServed, <<>>, <<>>)

\* _handle_sse_message up to its first broadcast: the body is parsed and
\* the request handled; what is left to send is the handler's plan.
SsePost(c, data) ==
    /\ serving = "sse"
    /\ sse[c].state # "sending"
    /\ UNCHANGED <<serving, lastCall, lastLine, emitted, served, lastRequest,
                   lastResponse, overridesBefore>>
    /\ CASE data.kind = "invalid" ->
              \* HTTP 400, nothing is broadcast
              /\ sse' = [sse EXCEPT ![c] =
                            Handler("http400", data, NotServed, <<>>, <<>>)]
              /\ UNCHANGED <<sequentialIndex, responseOverrides>>
         [] data.kind = "array" ->
              \* data.get raises in the handler and in the except branch
              /\ sse' = [sse EXCEPT ![c] =
                            Handler("http500", data, NotServed, <<>>, <<>>)]
              /\ UNCHANGED <<sequentialIndex, responseOverrides>>
         [] data.kind = "request" ->
              LET h == HandleRequestWithInteraction(data.request)
              IN  /\ sse' = [sse EXCEPT ![c] =
                                Handler("sending", data, Served(h),
                                        Written(data.request, h), <<>>)]
                  /\ sequentialIndex' = h.index
                  /\ responseOverrides' = h.overrides

\* One _broadcast_sse_event of a handler in progress; after the last one
\* the handler returns 202.
SseSend(c) ==
    /\ serving = "sse"
    /\ sse[c].state = "sending"
    /\ LET sent == Append(sse[c].sent, sse[c].plan[Len(sse[c].sent) + 1])
       IN  sse' = [sse EXCEPT ![c].sent = sent,
                              ![c].state = IF Len(sent) = Len(sse[c].plan)
                                           THEN "http202" ELSE "sending"]
    /\ UNCHANGED <<serving, lastCall, lastLine, emitted, served, lastRequest,
                   lastResponse, overridesBefore, sequentialIndex,
                   responseOverrides>>

(***************************************************************************)
(* StdioTransport (transport/stdio.py).  The transport spawns the server   *)
(* and runs two tasks: _read_messages, which gathers the two read loops,   *)
(* and _monitor_process.  One transport is spawned at most once.           *)
(***************************************************************************)
\* A line on a pipe: a JSON message, text that is not JSON, bytes that are
\* not UTF-8, or the empty read at end of file.
Line(kind, msg) == [kind |-> kind, msg |-> msg]
Eof == Line("eof", "")
Lines ==
    {Line("json", "m1"), Line("json", "m2"), Line("garbage", ""),
     Line("binary", "")}

\* What a callback does with a message.
Callbacks == {"same", "modified", "suppress", "raise"}

\* StdioTransport.__init__
NewStdio ==
    [is_connected |-> FALSE, shutdown |-> FALSE, process |-> "none",
     reader_task |-> "none", writer_task |-> "none", calls |-> 0,
     stops |-> 0]

NewStreams ==
    [serverIn |-> <<>>, clientIn |-> <<>>, serverSeen |-> <<>>,
     clientSeen |-> <<>>, toClient |-> <<>>, toServer |-> <<>>,
     serverLoop |-> "idle", clientLoop |-> "idle", clientOpen |-> TRUE]

\* json.loads(line.decode("utf-8").strip()): the message, or the exception
Decode(line) ==
    CASE line.kind = "binary" -> "UnicodeDecodeError"
      [] line.kind = "garbage" -> "JSONDecodeError"
      [] OTHER -> line.msg

\* The value of `forwarded` after the callback: <<>> is None.
Forwarded(message, callback) ==
    CASE callback = "modified" -> <<message \o "'">>
      [] callback = "suppress" -> <<>>
      [] callback = "raise" -> <<message>>
      [] OTHER -> <<message>>

\* A loop that has returned or was cancelled.
Ended(loop) == loop \notin {"idle", "running"}

\* _read_messages returns when gather has both loops: its finally block
\* clears _is_connected.
ReaderDone(t, newStreams) ==
    IF Ended(newStreams.serverLoop) /\ Ended(newStreams.clientLoop)
       /\ t.reader_task = "running"
    THEN [t EXCEPT !.reader_task = "done", !.is_connected = FALSE]
    ELSE t

\* StdioTransport.start
StdioStart(spawned) ==
    /\ stdio.calls < MaxTransportCalls
    /\ stdio.process = "none" \/ stdio.is_connected
    /\ transportCall' = <<"stdio", "start">>
    /\ stdioLog' = <<>>
    /\ UNCHANGED sseTransport
    /\ IF stdio.is_connected
       THEN /\ transportRaised' = "RuntimeError"
            /\ stdio' = [stdio EXCEPT !.calls = @ + 1]
            /\ UNCHANGED streams
       ELSE IF spawned
       THEN /\ transportRaised' = ""
            /\ stdio' = [stdio EXCEPT !.calls = @ + 1, !.shutdown = FALSE,
                                      !.process = "alive",
                                      !.is_connected = TRUE,
                                      !.reader_task = "running",
                                      !.writer_task = "running"]
            /\ streams' = [streams EXCEPT !.serverLoop = "running",
                                          !.clientLoop = "running"]
       ELSE /\ transportRaised' = "OSError"
            /\ stdio' = [stdio EXCEPT !.calls = @ + 1, !.shutdown = FALSE,
                                      !.is_connected = FALSE]
            /\ UNCHANGED streams

\* What stop() does, in order, to a reader task, a monitor task and a
\* process that answers terminate() and kill() as `outcome` says; kill is
\* sent without waiting for the process to exit.
StopLogKillAtOnce(reader, monitor, process, outcome) ==
    (IF reader = "running" THEN <<"cancel_reader">> ELSE <<>>)
      \o (IF monitor = "running" THEN <<"cancel_monitor">> ELSE <<>>)
      \o (IF process = "alive" THEN <<"terminate", "kill">> ELSE <<>>)

\* The same with the wait of 5 seconds between terminate() and kill().
StopLog(reader, monitor, process, outcome) ==
    (IF reader = "running" THEN <<"cancel_reader">> ELSE <<>>)
      \o (IF monitor = "running" THEN <<"cancel_monitor">> ELSE <<>>)
      \o (IF process = "alive"
          THEN IF outcome = "exits" THEN <<"terminate">>
               ELSE <<"terminate", "timeout", "kill">>
          ELSE <<>>)

\* How a process answers terminate() and kill().
StopOutcomes == {"exits", "ignores_terminate", "ignores_kill"}

\* StdioTransport.stop
StdioStop(outcome) ==
    /\ stdio.calls < MaxTransportCalls
    /\ transportCall' = <<"stdio", "stop">>
    /\ transportRaised' = ""
    /\ stdioLog' = StopLog(stdio.reader_task, stdio.writer_task,
                           stdio.process, outcome)
    /\ stdio' =
         [stdio EXCEPT
            !.calls = @ + 1,
            !.stops = @ + 1,
            !.shutdown = TRUE,
            !.is_connected = FALSE,
            !.reader_task = IF @ = "running" THEN "cancelled" ELSE @,
            !.writer_task = IF @ = "running" THEN "cancelled" ELSE @,
            !.process = IF @ = "alive" /\ outcome # "ignores_kill"
                        THEN "exited" ELSE @]
    /\ streams' =
         [streams EXCEPT
            !.serverLoop = IF @ = "running" THEN "cancelled" ELSE @,
            !.clientLoop = IF @ = "running" THEN "cancelled" ELSE @,
            !.serverIn = IF stdio.process = "alive"
                            /\ outcome # "ignores_kill"
                         THEN Append(@, Eof) ELSE @]
    /\ UNCHANGED sseTransport

\* The server process exits on its own: its stdout reaches end of file.
ProcessExits ==
    /\ stdio.process = "alive"
    /\ stdio' = [stdio EXCEPT !.process = "exited"]
    /\ streams' = [streams EXCEPT !.serverIn = Append(@, Eof)]
    /\ UNCHANGED <<stdioLog, sseTransport, transportCall, transportRaised>>

\* StdioTransport._monitor_process, woken by the exit of the process
MonitorProcess ==
    /\ stdio.writer_task = "running"
    /\ stdio.process = "exited"
    /\ stdio' = [stdio EXCEPT !.writer_task = "done", !.is_connected = FALSE]
    /\ UNCHANGED <<stdioLog, streams, sseTransport, transportCall,
                   transportRaised>>

\* The lines the two peers have written so far.
LinesWritten ==
    Len(SelectSeq(streams.serverIn, LAMBDA line : line # Eof))
      + Len(SelectSeq(streams.clientIn, LAMBDA line : line # Eof))
      + Len(streams.serverSeen) + Len(streams.clientSeen)

\* The server writes a line to its stdout.
ServerWrites(line) ==
    /\ stdio.process = "alive"
    /\ LinesWritten < MaxLines
    /\ streams' = [streams EXCEPT !.serverIn = Append(@, line)]
    /\ UNCHANGED <<stdio, stdioLog, sseTransport, transportCall,
                   transportRaised>>

\* The client writes a line to the stdin of the transport.
ClientWrites(line) ==
    /\ streams.clientOpen
    /\ LinesWritten < MaxLines
    /\ streams' = [streams EXCEPT !.clientIn = Append(@, line)]
    /\ UNCHANGED <<stdio, stdioLog, sseTransport, transportCall,
                   transportRaised>>

\* The client goes away: stdin reaches end of file, stdout is a broken pipe.
ClientCloses ==
    /\ streams.clientOpen
    /\ streams' = [streams EXCEPT !.clientOpen = FALSE,
                                  !.clientIn = Append(@, Eof)]
    /\ UNCHANGED <<stdio, stdioLog, sseTransport, transportCall,
                   transportRaised>>

\* One turn of _read_from_server on the next line of the server.
ReadFromServer(callback) ==
    /\ streams.serverLoop = "running"
    /\ ~stdio.shutdown
    /\ streams.serverIn # <<>>
    /\ LET line == Head(streams.serverIn)
           taken == [streams EXCEPT !.serverIn = Tail(@)]
           seen == [taken EXCEPT
                      !.serverSeen = Append(@, [line |-> line,
                                                callback |-> callback])]
           next ==
             IF line.kind = "eof"
             THEN [taken EXCEPT !.serverLoop = "eof"]
             ELSE IF Decode(line) = "UnicodeDecodeError"
             THEN [seen EXCEPT !.serverLoop = "UnicodeDecodeError"]
             ELSE IF Decode(line) = "JSONDecodeError"
             THEN seen
             ELSE IF Forwarded(Decode(line), callback) = <<>>
             THEN seen
             ELSE IF ~streams.clientOpen
             THEN [seen EXCEPT !.serverLoop = "ConnectionError"]
             ELSE [seen EXCEPT
                     !.toClient = @ \o Forwarded(Decode(line), callback)]
       IN  /\ line.kind \in {"json"} \/ callback = "same"
           /\ streams' = next
           /\ stdio' = ReaderDone(stdio, next)
    /\ UNCHANGED <<stdioLog, sseTransport, transportCall, transportRaised>>

\* wait_for(self._process.stdout.readline(), timeout=60.0) times out.
ServerReadTimeout ==
    /\ streams.serverLoop = "running"
    /\ ~stdio.shutdown
    /\ streams.serverIn = <<>>
    /\ LET next == [streams EXCEPT !.serverLoop = "TimeoutError"]
       IN  /\ streams' = next
           /\ stdio' = ReaderDone(stdio, next)
    /\ UNCHANGED <<stdioLog, sseTransport, transportCall, transportRaised>>

\* One turn of _read_from_client on the next line of the client.
ReadFromClient(callback) ==
    /\ streams.clientLoop = "running"
    /\ ~stdio.shutdown
    /\ streams.clientIn # <<>>
    /\ LET line == Head(streams.clientIn)
           taken == [streams EXCEPT !.clientIn = Tail(@)]
           seen == [taken EXCEPT
                      !.clientSeen = Append(@, [line |-> line,
                                                callback |-> callback])]
           sent == line.kind = "json"
                     /\ Forwarded(Decode(line), callback) # <<>>
           next ==
             IF line.kind = "eof"
             THEN [taken EXCEPT !.clientLoop = "eof"]
             ELSE IF Decode(line) = "UnicodeDecodeError"
             THEN [seen EXCEPT !.clientLoop = "UnicodeDecodeError"]
             ELSE IF Decode(line) = "JSONDecodeError"
             THEN seen
             ELSE IF Forwarded(Decode(line), callback) = <<>>
             THEN seen
             ELSE IF ~stdio.is_connected \/ stdio.process # "alive"
             THEN [seen EXCEPT !.clientLoop = "ConnectionError"]
             ELSE [seen EXCEPT
                     !.toServer = @ \o Forwarded(Decode(line), callback)]
           \* send_to_server clears _is_connected on a broken pipe
           broken == IF sent /\ stdio.process # "alive"
                     THEN [stdio EXCEPT !.is_connected = FALSE]
                     ELSE stdio
       IN  /\ line.kind \in {"json"} \/ callback = "same"
           /\ streams' = next
           /\ stdio' = ReaderDone(broken, next)
    /\ UNCHANGED <<stdioLog, sseTransport, transportCall, transportRaised>>

\* wait_for(client_reader.readline(), timeout=1.0) times out: continue.
ClientReadTimeout ==
    /\ streams.clientLoop = "running"
    /\ ~stdio.shutdown
    /\ streams.clientIn = <<>>
    /\ UNCHANGED <<streams, stdio, stdioLog, sseTransport, transportCall, transportRaised>>

(***************************************************************************)
(* SSETransport (transport/sse.py): the proxy HTTP site, its runner, the   *)
(* client session to the remote server, and the queues of the SSE clients. *)
(***************************************************************************)
\* SSETransport.__init__
NewSse ==
    [is_connected |-> FALSE, shutdown |-> FALSE, site |-> "none",
     runner |-> "none", session |-> "none", clients |-> {}, calls |-> 0,
     stops |-> 0]

SseClients == {1, 2}

\* The body of SSETransport.stop: every step that can fail is wrapped in
\* try / except Exception, the queues are unbounded.
SseStopped(t) ==
    [t EXCEPT !.shutdown = TRUE,
              !.is_connected = FALSE,
              !.clients = {},
              !.site = IF @ = "started" THEN "stopped" ELSE @,
              !.runner = IF @ = "setup" THEN "cleaned" ELSE @,
              !.session = IF @ = "open" THEN "closed" ELSE @]

\* How start() fares: the port is taken, the remote server is down, or
\* both work.
StartOutcomes == {"ok", "bind_error", "remote_down"}

\* SSETransport.start
SseStart(outcome) ==
    /\ sseTransport.calls < MaxTransportCalls
    /\ transportCall' = <<"sse", "start">>
    /\ UNCHANGED <<stdio, stdioLog, streams>>
    /\ LET called == [sseTransport EXCEPT !.calls = @ + 1]
           begun == [called EXCEPT !.shutdown = FALSE, !.session = "open",
                                   !.runner = "setup"]
       IN  IF sseTransport.is_connected
           THEN /\ transportRaised' = "RuntimeError"
                /\ sseTransport' = called
           ELSE IF outcome = "bind_error"
           THEN /\ transportRaised' = "OSError"
                /\ sseTransport' = [begun EXCEPT !.site = "created"]
           ELSE IF outcome = "remote_down"
           THEN /\ transportRaised' = "ConnectionError"
                /\ sseTransport' = SseStopped([begun EXCEPT !.site = "started"])
           ELSE /\ transportRaised' = ""
                /\ sseTransport' = [begun EXCEPT !.site = "started",
                                        !.is_connected = TRUE]

\* SSETransport.stop
SseStop ==
    /\ sseTransport.calls < MaxTransportCalls
    /\ transportCall' = <<"sse", "stop">>
    /\ transportRaised' = ""
    /\ sseTransport' =
         [SseStopped(sseTransport) EXCEPT !.calls = @ + 1, !.stops = @ + 1]
    /\ UNCHANGED <<stdio, stdioLog, streams>>

\* SSETransport._handle_sse: a client opens GET /sse and gets a queue.
HandleSse(client) ==
    /\ sseTransport.site = "started"
    /\ client \notin sseTransport.clients
    /\ sseTransport' = [sseTransport EXCEPT !.clients = @ \cup {client}]
    /\ UNCHANGED <<stdio, stdioLog, streams, transportCall, transportRaised>>

LateIdle ==
    /\ worker = <<>>
    /\ epoch = <<>>
    /\ proxy = <<>>
    /\ query = <<>>

TransportIdle ==
    /\ stdio = NewStdio
    /\ stdioLog = <<>>
    /\ streams = NewStreams
    /\ sseTransport = NewSse
    /\ transportCall = <<"", "">>
    /\ transportRaised = ""

(***************************************************************************)
(* MCPDiff.compare (diff.py).  An interaction is named by its position in  *)
(* its recording.  The lists of a result are kept as sets: the order in    *)
(* which compare fills them is not modelled.                               *)
(***************************************************************************)
\* JSONRPCResponse: a result payload, or an error with code and message.
ResultOf(payload) ==
    [kind |-> "result", payload |-> payload, code |-> 0, message |-> ""]
ErrorOf(code, message) ==
    [kind |-> "error", payload |-> JNull, code |-> code, message |-> message]

\* VCRInteraction as compare reads it; response is <<>> (None) or <<r>>.
DiffInteraction(method, params, response, latency) ==
    [method |-> method, params |-> params, response |-> response,
     latency_ms |-> latency]

\* baseline_by_method / current_by_method: the positions of a method
ByMethod(list, method) == {i \in 1..Len(list) : list[i].method = method}

MethodsOf(list) == {list[i].method : i \in 1..Len(list)}

\* MCPDiff._find_matching_interaction: the first candidate with the
\* method and params of the interaction, 0 for None
FindMatchingInteraction(x, candidates) ==
    LET same == {b \in 1..Len(candidates) :
                    /\ candidates[b].method = x.method
                    /\ candidates[b].params = x.params}
    IN  IF same = {} THEN 0 ELSE CHOOSE b \in same : \A o \in same : b <= o

\* {k: v for k, v in {"result": ..., "error": ...}.items() if v is not None}
ResponseKeys(response) ==
    IF response = <<>> THEN {} ELSE {response[1].kind}

\* ModifiedInteraction.is_compatible
IsCompatible(baseline_response, current_response) ==
    LET baseline_is_error == "error" \in ResponseKeys(baseline_response)
        current_is_error == "error" \in ResponseKeys(current_response)
    IN  IF baseline_is_error # current_is_error THEN FALSE
        ELSE IF ~baseline_is_error
                /\ "result" \notin ResponseKeys(current_response) THEN FALSE
        ELSE TRUE

\* MCPDiff._diff_interactions returns a ModifiedInteraction (not None)
Differ(baseline, current) ==
    \/ [method |-> baseline.method, params |-> baseline.params]
          # [method |-> current.method, params |-> current.params]
    \/ /\ baseline.response # <<>>
       /\ current.response # <<>>
       /\ [kind |-> baseline.response[1].kind,
           payload |-> baseline.response[1].payload,
           code |-> baseline.response[1].code,
           message |-> baseline.response[1].message]
            # [kind |-> current.response[1].kind,
               payload |-> current.response[1].payload,
               code |-> current.response[1].code,
               message |-> current.response[1].message]

\* The methods of the baseline that compare reports as removed: none.
RemovedMethodsNone(baseline, current) == {}

\* for method ... in baseline_by_method: if method not in current_by_method
RemovedMethods(baseline, current) == MethodsOf(baseline) \ MethodsOf(current)

\* for method ... in current_by_method: if not baseline_list
AddedMethods(baseline, current) == MethodsOf(current) \ MethodsOf(baseline)

\* The MCPDiffResult of compare(baseline, current).
\*   added, removed : positions in current, in baseline
\*   modified       : per ModifiedInteraction the pair of positions and
\*                    its is_compatible
\*   breaking       : <<kind of change, method, position in current>>
DiffResult(baseline, current) ==
    LET match(c) == FindMatchingInteraction(current[c], baseline)
        shared == {c \in 1..Len(current) :
                      current[c].method \in MethodsOf(baseline)}
        matched == {match(c) : c \in shared} \ {0}
        added ==
            {c \in 1..Len(current) :
                current[c].method \in AddedMethods(baseline, current)}
              \cup {c \in shared : match(c) = 0}
        removed ==
            {b \in 1..Len(baseline) :
                /\ baseline[b].method \in MethodsOf(current)
                /\ b \notin matched}
              \cup {b \in 1..Len(baseline) :
                      baseline[b].method \in RemovedMethods(baseline, current)}
        modified ==
            {[baseline |-> match(c), current |-> c,
              is_compatible |-> IsCompatible(baseline[match(c)].response,
                                             current[c].response)] :
                c \in {c \in shared :
                          /\ match(c) # 0
                          /\ Differ(baseline[match(c)], current[c])}}
        breaking ==
            {<<"New method added", m, 0>> :
                m \in AddedMethods(baseline, current)}
              \cup {<<"Breaking change", current[m.current].method, m.current>> :
                      m \in {m \in modified : ~m.is_compatible}}
              \cup {<<"Method removed", m, 0>> :
                      m \in RemovedMethods(baseline, current)}
    IN  [is_identical |-> added = {} /\ removed = {} /\ modified = {}
                             /\ breaking = {},
         is_compatible |-> breaking = {},
         added_interactions |-> added,
         removed_interactions |-> removed,
         modified_interactions |-> modified,
         breaking_changes |-> breaking]

\* The keyword arguments compare accepts.
CompareKeywords == {"ignore_params"}

\* MCPDiff.compare(baseline, current, **options)
Compare(options) ==
    /\ diffOptions' = options
    /\ IF options \subseteq CompareKeywords
       THEN /\ diffResult' = <<DiffResult(diffBaseline, diffCurrent)>>
            /\ diffRaised' = ""
       ELSE /\ diffResult' = <<>>
            /\ diffRaised' = "TypeError"
    /\ UNCHANGED <<diffBaseline, diffCurrent>>

(***************************************************************************)
(* MCPRecorder._on_server_message and SessionManager.record_interaction    *)
(* run by several threads at once (record_interaction_async hands the      *)
(* latter to asyncio.to_thread).  The recorder pops the pending request    *)
(* and drains the notification buffer in one critical section, and then    *)
(* calls record_interaction without its lock; SessionManager takes no      *)
(* lock at all: a thread can be preempted between reading the counter for  *)
(* the new interaction, reading it again for `+= 1`, storing the sum, and  *)
(* appending.                                                              *)
(***************************************************************************)
NewWorker == [at |-> "idle", request |-> Request(0, ""), notifications |-> <<>>,
              sequence |-> 0, loaded |-> 0, calls |-> 0]

\* A drain that copies the buffer and leaves it as it is.
DrainedKept == notificationBuffer

\* self._notification_buffer.clear()
Drained == <<>>

\* with self._lock: self._notification_buffer.append(response_obj)
WorkerNotify ==
    /\ nextNotif <= MaxNotifs
    /\ notificationBuffer' = Append(notificationBuffer, nextNotif)
    /\ nextNotif' = nextNotif + 1
    /\ UNCHANGED <<worker, pendingRequests, pendingRequestTimes,
                   currentRecording, interactionCounter>>

\* with self._lock: pop the pending request, copy and clear the buffer
WorkerPop(t, i) ==
    /\ worker[t].at = "idle"
    /\ worker[t].calls < CallsPerThread
    /\ i \in DOMAIN pendingRequests
    /\ pendingRequests' = DictDel(pendingRequests, {i})
    /\ pendingRequestTimes' = DictDel(pendingRequestTimes, {i})
    /\ notificationBuffer' = Drained
    /\ worker' = [worker EXCEPT ![t].at = "popped",
                                ![t].request = pendingRequests[i],
                                ![t].notifications = notificationBuffer,
                                ![t].calls = @ + 1]
    /\ UNCHANGED <<nextNotif, currentRecording, interactionCounter>>

\* VCRInteraction(sequence=self._interaction_counter, ...)
WorkerStamp(t) ==
    /\ worker[t].at = "popped"
    /\ CanRecordInteraction
    /\ worker' = [worker EXCEPT ![t].at = "stamped",
                                ![t].sequence = interactionCounter]
    /\ UNCHANGED <<pendingRequests, pendingRequestTimes, notificationBuffer,
                   nextNotif, currentRecording, interactionCounter>>

\* self._interaction_counter += 1: the read
WorkerLoad(t) ==
    /\ worker[t].at = "stamped"
    /\ worker' = [worker EXCEPT ![t].at = "loaded",
                                ![t].loaded = interactionCounter]
    /\ UNCHANGED <<pendingRequests, pendingRequestTimes, notificationBuffer,
                   nextNotif, currentRecording, interactionCounter>>

\* self._interaction_counter += 1: the write
WorkerStore(t) ==
    /\ worker[t].at = "loaded"
    /\ interactionCounter' = NextSequence(worker[t].loaded)
    /\ worker' = [worker EXCEPT ![t].at = "stored"]
    /\ UNCHANGED <<pendingRequests, pendingRequestTimes, notificationBuffer,
                   nextNotif, currentRecording>>

\* self._current_recording.add_interaction(interaction)
WorkerAdd(t) ==
    /\ worker[t].at = "stored"
    /\ currentRecording' =
          <<[currentRecording[1] EXCEPT !.interactions =
                Append(@, Interaction(worker[t].sequence, worker[t].request,
                                      "result", worker[t].notifications))]>>
    /\ worker' = [worker EXCEPT ![t].at = "idle"]
    /\ UNCHANGED <<pendingRequests, pendingRequestTimes, notificationBuffer,
                   nextNotif, interactionCounter>>

(***************************************************************************)
(* The parts of the program a behaviour does not exercise stay as they     *)
(* are after construction.                                                 *)
(***************************************************************************)
RecorderIdle == RecorderInit /\ filterMethods = {} /\ maxInteractions = 0

MatcherIdle ==
    /\ interactions = <<>>
    /\ strategy = ""
    /\ requested = ""
    /\ sequentialIndex = 0
    /\ matcherRaised = ""
    /\ lastMatches = <<>>
    /\ findLog = <<>>
    /\ resetKind = ""

ThreadsIdle ==
    /\ pc = [t \in Threads |-> "idle"]
    /\ local = [t \in Threads |-> [match |-> 0, index |-> 0]]
    /\ callsLeft = [t \in Threads |-> 0]
    /\ results = [t \in Threads |-> <<>>]

ReplayerIdle ==
    /\ responseOverrides = EmptyDict
    /\ lastCall = ""
    /\ overridesBefore = EmptyDict
    /\ lastRequest = <<>>
    /\ lastResponse = <<>>

ServeIdle ==
    /\ serving = ""
    /\ lastLine = ""
    /\ emitted = <<>>
    /\ served = NotServed
    /\ sse = [c \in Handlers |-> NoHandler]

DiffIdle ==
    /\ diffBaseline = <<>>
    /\ diffCurrent = <<>>
    /\ diffOptions = {}
    /\ diffResult = <<>>
    /\ diffRaised = ""

FormatIdle ==
    /\ formatDoc = <<>>
    /\ formatText = <<>>
    /\ formatLoaded = <<>>

FilesIdle ==
    /\ files = [path \in Paths |-> Absent]
    /\ writer = NoWriter

RecordIdle ==
    /\ requestedStop = FALSE
    /\ recordPc = "idle"
    /\ recordRaised = ""
    /\ saveCount = 0

LifecycleIdle ==
    /\ smCall = ""
    /\ smBefore = SessionState
    /\ smLog = <<>>
    /\ RecordIdle
    /\ FilesIdle
    /\ FormatIdle
    /\ DiffIdle
    /\ TransportIdle
    /\ LateIdle

(***************************************************************************)
(* Spec: one recorder, driven by its transport callbacks, its API and its  *)
(* cleanup task, for at most MaxSteps steps.                               *)
(***************************************************************************)
RecorderStep ==
    /\ steps < MaxSteps
    /\ steps' = steps + 1
    /\ UNCHANGED <<matcherVars, threadVars, replayerVars, serveVars,
                   lifecycleVars>>

Init == RecorderInit /\ MatcherIdle /\ ThreadsIdle /\ ReplayerIdle /\ ServeIdle
        /\ LifecycleIdle /\ steps = 0

Next ==
    \/ RecorderStep /\ Start
    \/ RecorderStep /\ Stop
    \/ RecorderStep /\ Tick
    \/ RecorderStep /\ CleanupSweep
    \/ RecorderStep /\ \E msg \in ClientMessages : OnClientMessage(msg)
    \/ RecorderStep /\ OnServerNotification
    \/ RecorderStep /\ \E msg \in ServerResponses \cup ServerOddities :
                            OnServerMessage(msg)

Spec == Init /\ [][Next]_vars

(***************************************************************************)
(* SpecMatcher: one thread constructs a RequestMatcher and calls           *)
(* find_match and the reset methods on it, over one recorded list.         *)
(***************************************************************************)
MatcherShapes ==
    {<<"tools/list", PObject({})>>,
     <<"tools/list", PObject({<<"a", 1>>})>>,
     <<"tools/call", PNull>>}

MatcherRequests == {JSONRPCRequest(1, s[1], s[2]) : s \in MatcherShapes}

MatcherRecordings ==
    Lists({VCRInteraction(s[1], s[2], "result") : s \in MatcherShapes},
          MaxInteractions)

MatcherStep ==
    UNCHANGED <<recorderVars, lifecycleVars, threadVars, replayerVars, serveVars, steps>>

InitMatcher ==
    /\ RecorderIdle /\ ThreadsIdle /\ ReplayerIdle /\ ServeIdle /\ LifecycleIdle /\ steps = 0
    /\ interactions \in MatcherRecordings
    /\ strategy = ""
    /\ requested = ""
    /\ sequentialIndex = 0
    /\ matcherRaised = ""
    /\ lastMatches = <<>>
    /\ findLog = <<>>
    /\ resetKind = ""

NextMatcher ==
    \/ MatcherStep /\ \E name \in StrategyNames : NewMatcher(name)
    \/ MatcherStep /\ \E request \in MatcherRequests : FindMatch(request)
    \/ MatcherStep /\ ResetSequentialIndex
    \/ MatcherStep /\ Reset

SpecMatcher == InitMatcher /\ [][NextMatcher]_vars

(***************************************************************************)
(* SpecSubset: a matcher is constructed under some strategy name and       *)
(* find_all_matches is called on it, over all params of the model.         *)
(***************************************************************************)
SubsetRequests ==
    {JSONRPCRequest(1, m, p) : m \in ReplayMethods, p \in Params}

SubsetRecordings ==
    Lists({VCRInteraction(m, p, "result") : m \in ReplayMethods, p \in Params},
          MaxSubsetLen)

InitSubset ==
    /\ RecorderIdle /\ ThreadsIdle /\ ReplayerIdle /\ ServeIdle /\ LifecycleIdle /\ steps = 0
    /\ interactions \in SubsetRecordings
    /\ strategy = ""
    /\ requested = ""
    /\ sequentialIndex = 0
    /\ matcherRaised = ""
    /\ lastMatches = <<>>
    /\ findLog = <<>>
    /\ resetKind = ""

NextSubset ==
    \/ MatcherStep /\ \E name \in StrategyNames : NewMatcher(name)
    \/ MatcherStep /\ \E request \in SubsetRequests : FindAll(request)

SpecSubset == InitSubset /\ [][NextSubset]_vars

(***************************************************************************)
(* SpecThreads: NumThreads threads each call find_match CallsPerThread     *)
(* times on one sequential matcher.                                        *)
(***************************************************************************)
ThreadRecordings ==
    {[i \in 1..n |-> VCRInteraction("tools/list", PNull, "result")] :
        n \in 1..MaxInteractions}

ThreadStep ==
    UNCHANGED <<recorderVars, lifecycleVars, replayerVars, serveVars, steps, interactions,
                strategy,
                requested, matcherRaised, lastMatches, findLog, resetKind>>

InitThreads ==
    /\ RecorderIdle /\ ReplayerIdle /\ ServeIdle /\ LifecycleIdle /\ steps = 0
    /\ interactions \in ThreadRecordings
    /\ strategy = "sequential"
    /\ requested = "sequential"
    /\ sequentialIndex = 0
    /\ matcherRaised = ""
    /\ lastMatches = <<>>
    /\ findLog = <<>>
    /\ resetKind = ""
    /\ pc = [t \in Threads |-> "idle"]
    /\ local = [t \in Threads |-> [match |-> 0, index |-> 0]]
    /\ callsLeft = [t \in Threads |-> CallsPerThread]
    /\ results = [t \in Threads |-> <<>>]

NextThreads ==
    \/ ThreadStep /\ \E t \in Threads : ThreadCall(t)
    \/ ThreadStep /\ \E t \in Threads : ThreadCheck(t)
    \/ ThreadStep /\ \E t \in Threads : ThreadLoad(t)
    \/ ThreadStep /\ \E t \in Threads : ThreadRead(t)
    \/ ThreadStep /\ \E t \in Threads : ThreadWrite(t)

SpecThreads == InitThreads /\ [][NextThreads]_vars

(***************************************************************************)
(* SpecReplayer: one MCPReplayer over a recording, under each strategy,    *)
(* handling requests and taking response overrides.                        *)
(***************************************************************************)
ReplayRecordings ==
    Lists({VCRInteraction(m, PNull, r) : m \in ReplayMethods,
                                         r \in ResponseKinds},
          MaxReplayLen)

ReplayerStep ==
    UNCHANGED <<recorderVars, lifecycleVars, threadVars, serveVars, steps, interactions,
                strategy,
                requested, matcherRaised, lastMatches, findLog, resetKind>>

InitReplayer ==
    /\ RecorderIdle /\ ThreadsIdle /\ ReplayerIdle /\ ServeIdle /\ LifecycleIdle /\ steps = 0
    /\ interactions \in ReplayRecordings
    /\ strategy \in VALID_STRATEGIES
    /\ requested = strategy
    /\ sequentialIndex = 0
    /\ matcherRaised = ""
    /\ lastMatches = <<>>
    /\ findLog = <<>>
    /\ resetKind = ""

NextReplayer ==
    \/ ReplayerStep /\ \E request \in ReplayRequests : HandleRequest(request)

SpecReplayer == InitReplayer /\ [][NextReplayer]_vars

(***************************************************************************)
(* SpecOverrides: one MCPReplayer whose caller sets, clears and uses       *)
(* response overrides between requests.                                    *)
(***************************************************************************)
OverrideRecordings ==
    Lists({VCRInteraction("tools/list", PNull, "result")}, MaxReplayLen)

InitOverrides ==
    /\ RecorderIdle /\ ThreadsIdle /\ ReplayerIdle /\ ServeIdle /\ LifecycleIdle /\ steps = 0
    /\ interactions \in OverrideRecordings
    /\ strategy \in VALID_STRATEGIES
    /\ requested = strategy
    /\ sequentialIndex = 0
    /\ matcherRaised = ""
    /\ lastMatches = <<>>
    /\ findLog = <<>>
    /\ resetKind = ""

NextOverrides ==
    \/ ReplayerStep /\ \E request \in ReplayRequests : HandleRequest(request)
    \/ ReplayerStep /\ \E i \in Ids, response \in OverrideResponses :
                            SetResponseOverride(i, response)
    \/ ReplayerStep /\ ClearResponseOverrides

SpecOverrides == InitOverrides /\ [][NextOverrides]_vars

(***************************************************************************)
(* SpecServe: one MCPReplayer served over stdio, over SSE or called        *)
(* through handle_request_async, over recordings with notifications.       *)
(***************************************************************************)
ServeRecordings ==
    Lists({Notified(VCRInteraction("tools/list", PNull, r), n) :
              r \in {"result", "none"}, n \in {<<>>, <<1, 2>>}},
          MaxReplayLen)

ServeStep ==
    UNCHANGED <<recorderVars, lifecycleVars, threadVars, steps, interactions, strategy,
                requested, matcherRaised, lastMatches, findLog, resetKind>>

InitServe ==
    /\ RecorderIdle /\ ThreadsIdle /\ ReplayerIdle /\ LifecycleIdle /\ steps = 0
    /\ interactions \in ServeRecordings
    /\ strategy \in VALID_STRATEGIES
    /\ requested = strategy
    /\ sequentialIndex = 0
    /\ matcherRaised = ""
    /\ lastMatches = <<>>
    /\ findLog = <<>>
    /\ resetKind = ""
    /\ serving \in {"running", "sse", "direct"}
    /\ lastLine = ""
    /\ emitted = <<>>
    /\ served = NotServed
    /\ sse = [c \in Handlers |-> NoHandler]

NextServe ==
    \/ ServeStep /\ \E line \in ServeInputs : StdioLine(line)
    \/ ServeStep /\ StdioEof
    \/ ServeStep /\ \E request \in ServeRequests : HandleRequestAsync(request)
    \/ ServeStep /\ \E c \in Handlers, data \in ServeInputs : SsePost(c, data)
    \/ ServeStep /\ \E c \in Handlers : SseSend(c)

SpecServe == InitServe /\ [][NextServe]_vars

(***************************************************************************)
(* SpecSession: one SessionManager whose four methods are called directly, *)
(* in any order and in any state.                                          *)
(***************************************************************************)
SessionRequests == {Request(i, "tools/list") : i \in Ids}

RecorderRest ==
    <<filterMethods, maxInteractions, pendingTimeout, isRecording,
      initializeCaptured, transportUp, cleanupTask, pendingRequests,
      pendingRequestTimes, notificationBuffer, now, lastCallback, lastCase,
      forwarded, savedFile, nextNotif, notifArrival, recLog>>

SessionStep ==
    UNCHANGED <<RecorderRest, matcherVars, threadVars, replayerVars,
                serveVars, recordVars, fileVars, formatVars, diffVars,
                transportVars, lateVars, steps>>

InitSession ==
    /\ RecorderIdle /\ MatcherIdle /\ ThreadsIdle /\ ReplayerIdle /\ ServeIdle
    /\ LifecycleIdle /\ steps = 0

NextSession ==
    \/ SessionStep /\ StartRecordingCall(Request(1, "initialize"), "result")
    \/ SessionStep /\ StopRecordingCall
    \/ SessionStep /\ \E req \in SessionRequests, isList \in BOOLEAN :
                           RecordInteractionCall(req, "result", isList)
    \/ SessionStep /\ ResetCall

SpecSession == InitSession /\ [][NextSession]_vars

(***************************************************************************)
(* Claims about the recorder, checked under Spec.                          *)
(***************************************************************************)

\* C1: whatever path a message takes through _on_client_message or
\* _on_server_message (unparsable, internal error, filtered, unknown or
\* evicted id, before initialize, cap reached, ...), the callback returns
\* the message it was given, unchanged, and never the suppress value.
C1_CallbacksTransparent == lastCallback # "" => forwarded = "unchanged"

\* A response that arrives once max_interactions is reached was forwarded.
C1_Witness ==
    /\ lastCallback = "server"
    /\ lastCase = "capped"
    /\ forwarded = "unchanged"

\* The recordings the recorder holds or has handed out.
Recordings == {currentRecording, returned, savedFile} \ {<<>>}

\* C2: in the recording returned by stop() (and in the one being built),
\* interactions[i].sequence = i for every index i, counted from 0.
C2_SequenceIsIndex ==
    \A r \in Recordings :
        \A i \in 1..Len(r[1].interactions) :
            r[1].interactions[i].sequence = i - 1

\* stop() has returned a recording with two interactions.
C2_Witness == returned # <<>> /\ Len(returned[1].interactions) >= 2

\* The notifications of the k-th interaction recorded by this recorder.
Attached(k) == {recLog[k][j] : j \in 1..Len(recLog[k])}

\* C3: a server notification that arrives while the session is recording is
\* attached to the first interaction recorded after it arrived, never to a
\* later one, and is not dropped when an interaction is recorded after it.
C3_NotificationOnNextInteraction ==
    \A n \in DOMAIN notifArrival :
        notifArrival[n].live =>
            \A k \in 1..Len(recLog) :
                k > notifArrival[n].at =>
                    (n \in Attached(k) <=> k = notifArrival[n].at + 1)

(***************************************************************************)
(* Claims about the matcher, checked under SpecMatcher, SpecSubset and     *)
(* SpecThreads.                                                            *)
(***************************************************************************)
Range(s) == {s[i] : i \in 1..Len(s)}

\* How often the first k - 1 logged calls returned interaction i.
Usage(k, i) == Cardinality({j \in 1..(k - 1) : findLog[j].match = i})

\* The least-used interaction among those qualifying for the k-th logged
\* call, the earliest recorded one among equals.
LeastUsed(k) ==
    CHOOSE i \in Range(findLog[k].matches) :
        \A j \in Range(findLog[k].matches) :
            \/ Usage(k, i) < Usage(k, j)
            \/ Usage(k, i) = Usage(k, j) /\ i <= j

\* The first k logged calls were given one and the same request.
IdenticalRun(k) == \A j \in 1..k : findLog[j].request = findLog[k].request

\* C4: under exact, method, method_and_params and subset matching, each
\* call of a run of identical find_match requests on a matcher that was
\* never reset returns the least-used qualifying interaction, ties broken
\* by recorded order, so the run cycles through the qualifying ones.
C4_LeastUsedCycling ==
    (strategy \in {"exact", "method", "method_and_params", "fuzzy"}
        /\ resetKind = "") =>
        \A k \in 1..Len(findLog) :
            (IdenticalRun(k) /\ findLog[k].matches # <<>>) =>
                findLog[k].match = LeastUsed(k)

\* Every finished find_match call of the threads, as <<thread, call>>.
Calls == {c \in Threads \X (1..CallsPerThread) : c[2] <= Len(results[c[1]])}

AllDone == \A t \in Threads : pc[t] = "idle" /\ callsLeft[t] = 0

Min(a, b) == IF a <= b THEN a ELSE b

\* C5: with threads sharing one sequential matcher, no find_match call
\* raises, no interaction is returned to two calls, and once the threads
\* have finished the first interactions (as many as there were calls) have
\* each been returned.
C5_ThreadSafeSequential ==
    /\ \A c \in Calls : results[c[1]][c[2]].raised = ""
    /\ \A c \in Calls, d \in Calls :
          (c # d /\ results[c[1]][c[2]].match # 0) =>
              results[c[1]][c[2]].match # results[d[1]][d[2]].match
    /\ AllDone =>
          \A i \in 1..Min(Len(interactions), NumThreads * CallsPerThread) :
              \E c \in Calls : results[c[1]][c[2]].match = i

\* C6: on a sequential matcher, the k-th find_match call since it was
\* constructed (or since reset_sequential_index) returns the k-th recorded
\* interaction whatever the request, and every call after the last
\* interaction returns no match; so no interaction is returned twice.
C6_SequentialInOrder ==
    (strategy = "sequential" /\ resetKind # "reset") =>
        \A k \in 1..Len(findLog) :
            findLog[k].match = IF k <= Len(interactions) THEN k ELSE 0

\* A sequential matcher was given differing requests, returned both of its
\* two interactions and then no match.
C6_Witness ==
    /\ strategy = "sequential"
    /\ resetKind = ""
    /\ Len(interactions) = 2
    /\ Len(findLog) = 3
    /\ findLog[1].request # findLog[2].request
    /\ findLog[2].match = 2
    /\ findLog[3].match = 0

\* The cursor a fresh matcher has before the k-th of the logged calls.
RECURSIVE FreshIndex(_)
FreshIndex(k) ==
    IF k = 1 THEN 0
    ELSE FindAllMatches(strategy, findLog[k - 1].request, interactions,
                        FreshIndex(k - 1)).index

\* What a fresh matcher returns for the k-th of the logged calls.
FreshMatch(k) ==
    First(FindAllMatches(strategy, findLog[k].request, interactions,
                         FreshIndex(k)).matches)

\* C7: reset() succeeds, and the find_match calls made after it return
\* what the same calls return on a freshly constructed matcher.
C7_ResetIsFresh ==
    resetKind = "reset" =>
        /\ matcherRaised # "AttributeError"
        /\ \A k \in 1..Len(findLog) : findLog[k].match = FreshMatch(k)

\* The subset rule: equal methods, and both params null, or both objects
\* with every pair of the request present in the recorded params, or both
\* arrays and equal.
Qualifies(request, recorded) ==
    /\ request.method = recorded.method
    /\ \/ request.params.kind = "null" /\ recorded.params.kind = "null"
       \/ /\ request.params.kind = "object"
          /\ recorded.params.kind = "object"
          /\ request.params.fields \subseteq recorded.params.fields
       \/ /\ request.params.kind = "array"
          /\ recorded.params.kind = "array"
          /\ request.params.items = recorded.params.items

\* C8: a matcher asked for under the name subset, or its alias fuzzy,
\* exists, and find_all_matches on it returns exactly the interactions
\* against which the request qualifies by the subset rule.
C8_SubsetMatching ==
    requested \in {"subset", "fuzzy"} =>
        /\ matcherRaised # "ValueError"
        /\ \A k \in 1..Len(findLog) :
              \A i \in 1..Len(interactions) :
                  i \in Range(findLog[k].matches)
                      <=> Qualifies(findLog[k].request, interactions[i].request)

(***************************************************************************)
(* Claims about the replayer, checked under SpecReplayer.                  *)
(***************************************************************************)

\* C9: handle_request never raises; when the matcher finds no interaction
\* the response is an error with code -32601 and the request's id; when
\* the matched interaction has no recorded response it is an error with
\* code -32603.
C9_NeverRaises ==
    lastResponse # <<>> =>
        /\ lastResponse[1].path # "raised"
        /\ lastResponse[1].path = "no_match" =>
              /\ lastResponse[1].body = "error"
              /\ lastResponse[1].code = MethodNotFound
              /\ lastResponse[1].id = lastRequest[1].id
        /\ lastResponse[1].path = "no_response" =>
              /\ lastResponse[1].body = "error"
              /\ lastResponse[1].code = InternalError

\* C10: the response to a request matched to an interaction that has a
\* recorded response carries the id of the incoming request and exactly one
\* of result and error.
C10_MatchedResponse ==
    (lastResponse # <<>> /\ lastResponse[1].path = "matched") =>
        /\ lastResponse[1].id = lastRequest[1].id
        /\ lastResponse[1].body \in {"result", "error"}

\* C11: handle_request answers from an override exactly when one is set
\* for the request's id; it then returns that override verbatim and removes
\* it, leaving the overrides of other ids in place, so that the next
\* request with this id is answered by the matcher.  With no override for
\* the id, the overrides are left as they are.
C11_OverrideConsumedOnce ==
    lastCall = "handle_request" =>
        IF lastRequest[1].id \in DOMAIN overridesBefore
        THEN /\ lastResponse[1] = overridesBefore[lastRequest[1].id]
             /\ responseOverrides =
                    DictDel(overridesBefore, {lastRequest[1].id})
        ELSE /\ lastResponse[1].path # "override"
             /\ responseOverrides = overridesBefore

\* An override that names another id than the request's was returned, and
\* the override of the other id is still in place.
C11_Witness ==
    /\ lastCall = "handle_request"
    /\ lastRequest[1].id = IdInt(2)
    /\ lastRequest[1].id \in DOMAIN overridesBefore
    /\ lastResponse[1] = overridesBefore[IdInt(2)]
    /\ lastResponse[1].id # IdInt(2)
    /\ DOMAIN responseOverrides = {IdInt(1)}

(***************************************************************************)
(* Claims about serving, checked under SpecServe.                          *)
(***************************************************************************)

\* What the claims expect a server to write for a handled request: the
\* matched interaction's notifications in recorded order, then one
\* response, then nothing.
ExpectedEvents(h) ==
    [j \in 1..(Len(NotificationsOf(h.interaction)) + 1) |->
        IF j <= Len(NotificationsOf(h.interaction))
        THEN NotificationEvent(NotificationsOf(h.interaction)[j])
        ELSE ResponseEvent(h.response)]

\* The responses among events.
ResponsesIn(events) ==
    {j \in 1..Len(events) : events[j].kind = "response"}

\* The written events are the notifications of interaction k in recorded
\* order, followed by exactly one response, which is the last event.
NotificationsThenResponse(events, k) ==
    /\ Len(events) = Len(NotificationsOf(k)) + 1
    /\ ResponsesIn(events) = {Len(events)}
    /\ \A j \in 1..Len(NotificationsOf(k)) :
          events[j] = NotificationEvent(NotificationsOf(k)[j])

IsPrefix(s, t) ==
    /\ Len(s) <= Len(t)
    /\ \A j \in 1..Len(s) : s[j] = t[j]

\* C12: for each request handled by serve_stdio or by the SSE message
\* endpoint, the matched interaction's notifications are written in
\* recorded order, all before the request's response; exactly one response
\* is written, and nothing after it.
C12_NotificationsBeforeResponse ==
    /\ (lastCall = "serve_stdio" /\ lastLine = "request") =>
          NotificationsThenResponse(emitted, served.interaction)
    /\ \A c \in Handlers :
          sse[c].data.kind = "request" =>
              /\ sse[c].state = "http202" =>
                    NotificationsThenResponse(sse[c].sent,
                                              sse[c].served.interaction)
              /\ sse[c].state = "sending" =>
                    /\ ResponsesIn(sse[c].sent) = {}
                    /\ IsPrefix(sse[c].sent,
                                ExpectedEvents(sse[c].served))

\* Both servers have written two notifications and then the response of a
\* request: serve_stdio for its last line, an SSE handler while another
\* handler was still sending.
C12_WitnessStdio ==
    /\ lastCall = "serve_stdio"
    /\ lastLine = "request"
    /\ Len(emitted) = 3
    /\ emitted[3].response.path = "matched"

C12_Witness ==
    \E c \in Handlers, d \in Handlers :
        /\ sse[c].state = "http202"
        /\ Len(sse[c].sent) = 3
        /\ sse[d].state = "sending"
        /\ Len(sse[d].sent) = 1

\* C13: handle_request_async has emitted the matched interaction's
\* notifications, in recorded order, by the time it returns the response.
C13_AsyncEmitsNotifications ==
    (lastCall = "handle_request_async" /\ served.interaction # 0) =>
        \A j \in 1..Len(NotificationsOf(served.interaction)) :
            /\ j <= Len(emitted)
            /\ emitted[j] =
                   NotificationEvent(NotificationsOf(served.interaction)[j])

\* C14: the serve_stdio loop ends only at the end of input: after a line
\* that is invalid JSON, JSON that is no object, or a request that matches
\* nothing, the loop is still running and reads the next line.
C14_StopsOnlyAtEof ==
    serving \in {"eof", "crashed"} => lastLine = "eof"

(***************************************************************************)
(* SpecRecord: one task inside record(), the transport delivering traffic, *)
(* and other tasks calling request_stop() and stop().                      *)
(***************************************************************************)
RecordStep ==
    /\ steps < MaxSteps
    /\ steps' = steps + 1
    /\ UNCHANGED <<matcherVars, threadVars, replayerVars, serveVars,
                   sessionVars, fileVars, formatVars, diffVars,
                   transportVars, lateVars>>

RecordMessages ==
    {msg \in ClientMessages : msg.ver = "2.0" /\ msg.id = 1}

RecordResponses == {msg \in ServerResponses : msg.id = 1}

InitRecord ==
    /\ RecorderIdle /\ MatcherIdle /\ ThreadsIdle /\ ReplayerIdle /\ ServeIdle
    /\ LifecycleIdle /\ steps = 0

NextRecord ==
    \/ RecordStep /\ RecordCall
    \/ RecordStep /\ RequestStop
    \/ RecordStep /\ ExternalStop
    \/ RecordStep /\ RecordFinish
    \/ RecordStep /\ UNCHANGED recordVars
                  /\ \E msg \in RecordMessages : OnClientMessage(msg)
    \/ RecordStep /\ UNCHANGED recordVars
                  /\ \E msg \in RecordResponses : OnServerMessage(msg)

SpecRecord == InitRecord /\ [][NextRecord]_vars

(***************************************************************************)
(* SpecPersist: recordings written one after the other, by stop() to one   *)
(* path and by VCRRecording.save() to another, each write possibly failing *)
(* or cut short by the death of the process.                               *)
(***************************************************************************)
PersistStep ==
    UNCHANGED <<recorderVars, matcherVars, threadVars, replayerVars,
                serveVars, sessionVars, recordVars, formatVars, diffVars,
                transportVars, lateVars, steps>>

InitPersist ==
    /\ RecorderIdle /\ MatcherIdle /\ ThreadsIdle /\ ReplayerIdle /\ ServeIdle
    /\ LifecycleIdle /\ steps = 0

NextPersist ==
    \/ PersistStep /\ \E data \in Versions : StopOpen(data)
    \/ PersistStep /\ StopWrite
    \/ PersistStep /\ StopReplace
    \/ PersistStep /\ \E data \in Versions : SaveOpen(data)
    \/ PersistStep /\ SaveWrite
    \/ PersistStep /\ SaveClose
    \/ PersistStep /\ WriteError
    \/ PersistStep /\ Crash

SpecPersist == InitPersist /\ [][NextPersist]_vars

(***************************************************************************)
(* SpecFormat: one recording is saved and loaded, and turned into a JSON   *)
(* string and back, in any order and any number of times.                  *)
(***************************************************************************)
FormatInteractions ==
    {FormatInteraction(seq, time, i, response, notifs) :
        seq \in {0, 1}, time \in {1}, i \in FormatIds,
        response \in {<<>>, <<"result">>},
        notifs \in {<<>>, <<Notification(1), Notification(2)>>,
                    <<Notification(2), Notification(1)>>}}

FormatStep ==
    UNCHANGED <<recorderVars, matcherVars, threadVars, replayerVars,
                serveVars, sessionVars, recordVars, fileVars, diffVars,
                transportVars, lateVars, steps>>

InitFormat ==
    /\ RecorderIdle /\ MatcherIdle /\ ThreadsIdle /\ ReplayerIdle /\ ServeIdle
    /\ smCall = "" /\ smBefore = SessionState /\ smLog = <<>>
    /\ RecordIdle /\ FilesIdle /\ DiffIdle /\ TransportIdle /\ LateIdle
    /\ steps = 0
    /\ formatDoc \in Lists(FormatInteractions, MaxDocLen)
    /\ formatText = <<>>
    /\ formatLoaded = <<>>

NextFormat ==
    \/ FormatStep /\ Save
    \/ FormatStep /\ Load
    \/ FormatStep /\ ToJson
    \/ FormatStep /\ FromJson

SpecFormat == InitFormat /\ [][NextFormat]_vars

(***************************************************************************)
(* SpecDiff: two recordings of up to MaxDiffLen interactions are compared, *)
(* with and without keyword arguments.  SpecModified: two recordings of    *)
(* one interaction with the same request are compared, over a richer set   *)
(* of responses.                                                           *)
(***************************************************************************)
NoParams == JObj({})
SomeParams == JObj({<<"name", JStr("x")>>})

Payload1 == JObj({<<"a", JInt(1)>>})
Payload2 == JObj({<<"a", JInt(2)>>})

DiffInteractions ==
    {DiffInteraction("tools/list", NoParams, <<ResultOf(Payload1)>>, 100),
     DiffInteraction("tools/list", NoParams, <<ResultOf(Payload2)>>, 100),
     DiffInteraction("tools/list", SomeParams, <<ResultOf(Payload1)>>, 100)}
      \cup {DiffInteraction("tools/call", NoParams, <<ResultOf(Payload1)>>,
                             latency) : latency \in {100, 600, 1150}}

ModifiedResponses ==
    {<<>>, <<ErrorOf(1, "x")>>, <<ErrorOf(1, "y")>>, <<ErrorOf(2, "x")>>}
      \cup {<<ResultOf(payload)>> :
              payload \in {Payload1, Payload2, JObj({}),
                           JObj({<<"a", JStr("x")>>}),
                           JObj({<<"a", JNull>>}),
                           JObj({<<"a", JInt(1)>>, <<"b", JInt(1)>>}),
                           JObj({<<"n", Payload1>>}),
                           JObj({<<"n", JObj({})>>}),
                           JObj({<<"l", JArr(<<JInt(1)>>)>>}),
                           JObj({<<"l", JArr(<<JInt(2)>>)>>})}}

CompareOptions ==
    {{}, {"ignore_params"}, {"compare_latency"},
     {"compare_latency", "latency_threshold_factor", "latency_threshold_ms"}}

DiffStep ==
    UNCHANGED <<recorderVars, matcherVars, threadVars, replayerVars,
                serveVars, sessionVars, recordVars, fileVars, formatVars,
                transportVars, lateVars, steps>>

DiffRest ==
    /\ RecorderIdle /\ MatcherIdle /\ ThreadsIdle /\ ReplayerIdle /\ ServeIdle
    /\ smCall = "" /\ smBefore = SessionState /\ smLog = <<>>
    /\ RecordIdle /\ FilesIdle /\ FormatIdle /\ TransportIdle /\ LateIdle
    /\ steps = 0
    /\ diffOptions = {}
    /\ diffResult = <<>>
    /\ diffRaised = ""

InitDiff ==
    /\ DiffRest
    /\ diffBaseline \in Lists(DiffInteractions, MaxDiffLen)
    /\ diffCurrent \in Lists(DiffInteractions, MaxDiffLen)

NextDiff == DiffStep /\ \E options \in CompareOptions : Compare(options)

SpecDiff == InitDiff /\ [][NextDiff]_vars

InitModified ==
    /\ DiffRest
    /\ \E response \in ModifiedResponses :
          diffBaseline =
              <<DiffInteraction("tools/call", NoParams, response, 100)>>
    /\ \E response \in ModifiedResponses :
          diffCurrent =
              <<DiffInteraction("tools/call", NoParams, response, 100)>>

SpecModified == InitModified /\ [][NextDiff]_vars

(***************************************************************************)
(* SpecStop: a StdioTransport and an SSETransport are started and stopped  *)
(* in any order while the server process and the client come and go.       *)
(* SpecStdio: a StdioTransport proxies the lines the two peers write.      *)
(* SpecStdioFair: the same, where a read loop that has a line to read      *)
(* eventually takes its turn on the event loop.                            *)
(***************************************************************************)
TransportStep ==
    UNCHANGED <<recorderVars, matcherVars, threadVars, replayerVars,
                serveVars, sessionVars, recordVars, fileVars, formatVars,
                diffVars, lateVars, steps>>

InitTransport ==
    /\ RecorderIdle /\ MatcherIdle /\ ThreadsIdle /\ ReplayerIdle /\ ServeIdle
    /\ LifecycleIdle /\ steps = 0

NextStop ==
    \/ TransportStep /\ \E spawned \in BOOLEAN : StdioStart(spawned)
    \/ TransportStep /\ \E outcome \in StopOutcomes : StdioStop(outcome)
    \/ TransportStep /\ ProcessExits
    \/ TransportStep /\ MonitorProcess
    \/ TransportStep /\ ClientCloses
    \/ TransportStep /\ ReadFromServer("same")
    \/ TransportStep /\ ReadFromClient("same")
    \/ TransportStep /\ \E outcome \in StartOutcomes : SseStart(outcome)
    \/ TransportStep /\ SseStop
    \/ TransportStep /\ \E client \in SseClients : HandleSse(client)

SpecStop == InitTransport /\ [][NextStop]_vars

ServerTurn ==
    TransportStep /\ \E callback \in Callbacks : ReadFromServer(callback)
ClientTurn ==
    TransportStep /\ \E callback \in Callbacks : ReadFromClient(callback)

NextStdio ==
    \/ TransportStep /\ \E spawned \in BOOLEAN : StdioStart(spawned)
    \/ TransportStep /\ \E outcome \in StopOutcomes : StdioStop(outcome)
    \/ TransportStep /\ ProcessExits
    \/ TransportStep /\ MonitorProcess
    \/ TransportStep /\ \E line \in Lines : ServerWrites(line)
    \/ TransportStep /\ \E line \in Lines : ClientWrites(line)
    \/ TransportStep /\ ClientCloses
    \/ ServerTurn
    \/ ClientTurn
    \/ TransportStep /\ ServerReadTimeout
    \/ TransportStep /\ ClientReadTimeout

SpecStdio == InitTransport /\ [][NextStdio]_vars

SpecStdioFair ==
    /\ InitTransport
    /\ [][NextStdio]_vars
    /\ WF_vars(ServerTurn)
    /\ WF_vars(ClientTurn)

(***************************************************************************)
(* SpecQuery: the MCPReplayer of SpecOverrides, whose caller also asks for *)
(* the notifications of a request.  `query` holds the last                 *)
(* get_notifications_for_request call while no other call came after it:   *)
(* its request, the interaction it matched (0: none) and the response      *)
(* handle_request would have returned in the state it found.               *)
(***************************************************************************)
\* get_notifications_for_request(request): it runs
\* _handle_request_with_interaction and keeps the interaction.
GetNotificationsForRequest(request) ==
    LET h == HandleRequestWithInteraction(request)
    IN  /\ lastCall' = "get_notifications_for_request"
        /\ query' = <<[request |-> request, interaction |-> h.interaction,
                       response |-> h.response]>>
        /\ responseOverrides' = h.overrides
        /\ sequentialIndex' = h.index
        /\ UNCHANGED <<lastRequest, lastResponse, overridesBefore>>

QueryStep ==
    UNCHANGED <<recorderVars, sessionVars, recordVars, fileVars, formatVars,
                diffVars, transportVars, worker, epoch, proxy, threadVars,
                serveVars, steps, interactions, strategy, requested,
                matcherRaised, lastMatches, findLog, resetKind>>

InitQuery ==
    /\ RecorderIdle /\ ThreadsIdle /\ ReplayerIdle /\ ServeIdle
    /\ LifecycleIdle /\ steps = 0
    /\ interactions \in OverrideRecordings
    /\ strategy \in {"method", "sequential"}
    /\ requested = strategy
    /\ sequentialIndex = 0
    /\ matcherRaised = ""
    /\ lastMatches = <<>>
    /\ findLog = <<>>
    /\ resetKind = ""

NextQuery ==
    \/ QueryStep /\ \E request \in ReplayRequests :
                        GetNotificationsForRequest(request)
    \/ QueryStep /\ query' = <<>>
                 /\ \E request \in ReplayRequests : HandleRequest(request)
    \/ QueryStep /\ query' = <<>>
                 /\ \E i \in Ids, response \in OverrideResponses :
                        SetResponseOverride(i, response)
    \/ QueryStep /\ query' = <<>> /\ ClearResponseOverrides

SpecQuery == InitQuery /\ [][NextQuery]_vars

(***************************************************************************)
(* SpecProxy: a started SSETransport relaying the remote server's events   *)
(* to the clients connected to GET /sse.  Every connected client has its   *)
(* own _handle_sse task with a queue, and that task opens its own SSE      *)
(* stream to the remote server (_proxy_server_sse).  The remote server     *)
(* writes an event to every stream open to it (as MCPReplayer.serve_sse    *)
(* does) or to one of them.  `proxy` holds:                                *)
(*   clients    the ids in _active_sse_clients                             *)
(*   upstream   client -> events on its stream to the remote server, not   *)
(*              yet read                                                   *)
(*   queues     client -> messages put into its queue, not yet written     *)
(*   written    client -> messages written to the client                   *)
(*   callbacks  the messages on_server_message was called with             *)
(*   audience   event -> the clients connected when it was emitted         *)
(***************************************************************************)
NewProxy ==
    [clients |-> {}, upstream |-> [c \in SseClients |-> <<>>],
     queues |-> [c \in SseClients |-> <<>>],
     written |-> [c \in SseClients |-> <<>>],
     callbacks |-> <<>>, audience |-> <<>>]

\* How the remote server sends one event: on every stream open to it, or
\* on one.
EmitModes == {"every", "one"}

\* _handle_sse, up to the start of its loop: the client is registered, gets
\* a queue, and a stream to the remote server is opened for it.
ProxyConnect(c) ==
    /\ c \notin proxy.clients
    /\ proxy' = [proxy EXCEPT !.clients = @ \cup {c}]

\* The remote server emits its next event, once.
RemoteEmits(mode, c) ==
    /\ Len(proxy.audience) < MaxEvents
    /\ c \in proxy.clients
    /\ LET event == Len(proxy.audience) + 1
           streamsHit == IF mode = "every" THEN proxy.clients ELSE {c}
       IN  proxy' = [proxy EXCEPT
                       !.audience = Append(@, proxy.clients),
                       !.upstream = [k \in SseClients |->
                                        IF k \in streamsHit
                                        THEN Append(@[k], event) ELSE @[k]]]

\* send_to_client(message): the queues afterwards
SendToClient(queues, message) ==
    [k \in SseClients |->
        IF k \in proxy.clients THEN Append(queues[k], message) ELSE queues[k]]

\* _proxy_server_sse of client c reads one data line: the callback is
\* invoked and what it returns (the message) goes to send_to_client.
ProxyServerSse(c) ==
    /\ c \in proxy.clients
    /\ proxy.upstream[c] # <<>>
    /\ proxy' = [proxy EXCEPT
                   !.upstream[c] = Tail(@),
                   !.callbacks = Append(@, Head(proxy.upstream[c])),
                   !.queues = SendToClient(@, Head(proxy.upstream[c]))]

\* The loop of _handle_sse of client c takes one message from its queue
\* and writes it to the client.
ProxyWrite(c) ==
    /\ c \in proxy.clients
    /\ proxy.queues[c] # <<>>
    /\ proxy' = [proxy EXCEPT !.queues[c] = Tail(@),
                              !.written[c] = Append(@, Head(proxy.queues[c]))]

ProxyStep ==
    UNCHANGED <<recorderVars, matcherVars, threadVars, replayerVars,
                serveVars, sessionVars, recordVars, fileVars, formatVars,
                diffVars, transportVars, worker, epoch, query, steps>>

InitProxy ==
    /\ RecorderIdle /\ MatcherIdle /\ ThreadsIdle /\ ReplayerIdle /\ ServeIdle
    /\ smCall = "" /\ smBefore = SessionState /\ smLog = <<>>
    /\ RecordIdle /\ FilesIdle /\ FormatIdle /\ DiffIdle
    /\ stdio = NewStdio /\ stdioLog = <<>> /\ streams = NewStreams
    /\ sseTransport = [NewSse EXCEPT !.is_connected = TRUE,
                                     !.site = "started", !.runner = "setup",
                                     !.session = "open", !.calls = 1]
    /\ transportCall = <<"sse", "start">>
    /\ transportRaised = ""
    /\ worker = <<>> /\ epoch = <<>> /\ query = <<>>
    /\ proxy = NewProxy
    /\ steps = 0

NextProxy ==
    \/ ProxyStep /\ \E c \in SseClients : ProxyConnect(c)
    \/ ProxyStep /\ \E mode \in EmitModes, c \in SseClients :
                        RemoteEmits(mode, c)
    \/ ProxyStep /\ \E c \in SseClients : ProxyServerSse(c)
    \/ ProxyStep /\ \E c \in SseClients : ProxyWrite(c)

SpecProxy == InitProxy /\ [][NextProxy]_vars

(***************************************************************************)
(* SpecHistory: the recorder of Spec, with no filter and no cap and with   *)
(* pending_timeout_seconds 0 or PendingTimeout, over MaxHistorySteps       *)
(* steps, together with a record of where its pending requests and         *)
(* buffered notifications come from:                                       *)
(*   session     how many start() calls were accepted                      *)
(*   sentIn      pending id -> the session its request was tracked in      *)
(*   bufferedIn  the session each buffered notification arrived in         *)
(*   evicted     the ids a sweep removed and the client has not sent again *)
(*   late        the last response handled had an evicted id               *)
(*   paired      the last response that started a session or was recorded: *)
(*               the sessions of its request, of the notifications         *)
(*               attached with it, and the session it went into            *)
(***************************************************************************)
NewEpoch ==
    [session |-> 0, sentIn |-> EmptyDict, bufferedIn |-> <<>>, evicted |-> {},
     late |-> FALSE, paired |-> <<>>]

HistoryStart ==
    /\ Start
    /\ epoch' = IF isRecording THEN epoch
                ELSE [epoch EXCEPT !.session = @ + 1]

HistoryStop == Stop /\ UNCHANGED epoch

HistoryTick == Tick /\ UNCHANGED epoch

HistorySweep ==
    /\ CleanupSweep
    /\ epoch' = [epoch EXCEPT !.sentIn = DictDel(@, Stale),
                              !.evicted = @ \cup Stale]

HistoryClient(msg) ==
    /\ OnClientMessage(msg)
    /\ epoch' = IF ClientCase(msg) = "tracked"
                THEN [epoch EXCEPT !.sentIn = DictPut(@, msg.id, epoch.session),
                                   !.evicted = @ \ {msg.id}]
                ELSE epoch

HistoryNotification ==
    /\ OnServerNotification
    /\ epoch' = [epoch EXCEPT !.bufferedIn = Append(@, epoch.session)]

HistoryServer(msg) ==
    /\ OnServerMessage(msg)
    /\ epoch' =
          IF ServerCase(msg) \in {"error", "unparsable"} THEN epoch
          ELSE [epoch EXCEPT
                  !.sentIn = DictDel(@, {msg.id}),
                  !.bufferedIn = <<>>,
                  !.late = msg.id \in epoch.evicted,
                  !.paired =
                     IF ServerCase(msg) \in {"initialize", "recorded"}
                     THEN <<[request |-> epoch.sentIn[msg.id],
                             notifications |->
                                IF ServerCase(msg) = "recorded"
                                THEN epoch.bufferedIn ELSE <<>>,
                             session |-> epoch.session]>>
                     ELSE @]

HistoryStep ==
    /\ steps < MaxHistorySteps
    /\ steps' = steps + 1
    /\ UNCHANGED <<matcherVars, threadVars, replayerVars, serveVars,
                   sessionVars, recordVars, fileVars, formatVars, diffVars,
                   transportVars, worker, proxy, query>>

InitHistory ==
    /\ filterMethods = {} /\ maxInteractions = 0
    /\ pendingTimeout \in {0, PendingTimeout}
    /\ isRecording = FALSE /\ initializeCaptured = FALSE
    /\ transportUp = FALSE /\ cleanupTask = FALSE
    /\ pendingRequests = EmptyDict /\ pendingRequestTimes = EmptyDict
    /\ notificationBuffer = <<>> /\ now = 0
    /\ smState = "idle" /\ currentRecording = <<>> /\ interactionCounter = 0
    /\ lastCallback = "" /\ lastCase = "" /\ forwarded = ""
    /\ returned = <<>> /\ savedFile = <<>> /\ raised = ""
    /\ nextNotif = 1 /\ notifArrival = EmptyDict /\ recLog = <<>>
    /\ MatcherIdle /\ ThreadsIdle /\ ReplayerIdle /\ ServeIdle
    /\ smCall = "" /\ smBefore = SessionState /\ smLog = <<>>
    /\ RecordIdle /\ FilesIdle /\ FormatIdle /\ DiffIdle /\ TransportIdle
    /\ worker = <<>> /\ proxy = <<>> /\ query = <<>>
    /\ epoch = NewEpoch
    /\ steps = 0

NextHistory ==
    \/ HistoryStep /\ HistoryStart
    \/ HistoryStep /\ HistoryStop
    \/ HistoryStep /\ HistoryTick
    \/ HistoryStep /\ HistorySweep
    \/ HistoryStep /\ \E msg \in ClientMessages : HistoryClient(msg)
    \/ HistoryStep /\ HistoryNotification
    \/ HistoryStep /\ \E msg \in ServerResponses \cup ServerOddities :
                           HistoryServer(msg)

SpecHistory == InitHistory /\ [][NextHistory]_vars

(***************************************************************************)
(* SpecWorkers: NumThreads threads each handle CallsPerThread server       *)
(* responses of a recorder whose session is recording and whose client     *)
(* has sent a request for each of them; server notifications arrive in     *)
(* between.                                                                *)
(***************************************************************************)
WorkerRest ==
    <<filterMethods, maxInteractions, pendingTimeout, isRecording,
      initializeCaptured, transportUp, cleanupTask, now, smState,
      lastCallback, lastCase, forwarded, returned, savedFile, raised,
      notifArrival, recLog>>

WorkerStep ==
    UNCHANGED <<WorkerRest, matcherVars, threadVars, replayerVars, serveVars,
                sessionVars, recordVars, fileVars, formatVars, diffVars,
                transportVars, epoch, proxy, query, steps>>

WorkerRequests ==
    [i \in 1..(NumThreads * CallsPerThread) |-> Request(i, "tools/list")]

InitWorkers ==
    /\ filterMethods = {} /\ maxInteractions = 0
    /\ pendingTimeout = PendingTimeout
    /\ isRecording = TRUE /\ initializeCaptured = TRUE
    /\ transportUp = TRUE /\ cleanupTask = TRUE
    /\ pendingRequests = WorkerRequests
    /\ pendingRequestTimes = [i \in DOMAIN WorkerRequests |-> 0]
    /\ notificationBuffer = <<>> /\ now = 0
    /\ smState = "recording"
    /\ currentRecording =
          <<[initialize_request |-> Request(1, "initialize"),
             initialize_response |-> "result", interactions |-> <<>>]>>
    /\ interactionCounter = 0
    /\ lastCallback = "" /\ lastCase = "" /\ forwarded = ""
    /\ returned = <<>> /\ savedFile = <<>> /\ raised = ""
    /\ nextNotif = 1 /\ notifArrival = EmptyDict /\ recLog = <<>>
    /\ MatcherIdle /\ ThreadsIdle /\ ReplayerIdle /\ ServeIdle
    /\ smCall = "" /\ smBefore = SessionState /\ smLog = <<>>
    /\ RecordIdle /\ FilesIdle /\ FormatIdle /\ DiffIdle /\ TransportIdle
    /\ worker = [t \in Threads |-> NewWorker]
    /\ epoch = <<>> /\ proxy = <<>> /\ query = <<>>
    /\ steps = 0

NextWorkers ==
    \/ WorkerStep /\ WorkerNotify
    \/ WorkerStep /\ \E t \in Threads, i \in DOMAIN WorkerRequests :
                         WorkerPop(t, i)
    \/ WorkerStep /\ \E t \in Threads : WorkerStamp(t)
    \/ WorkerStep /\ \E t \in Threads : WorkerLoad(t)
    \/ WorkerStep /\ \E t \in Threads : WorkerStore(t)
    \/ WorkerStep /\ \E t \in Threads : WorkerAdd(t)

SpecWorkers == InitWorkers /\ [][NextWorkers]_vars

(***************************************************************************)
(* Claims about SessionManager, checked under SpecSession.                 *)
(***************************************************************************)
SessionUnchanged == SessionState = smBefore

\* The requests of the interactions of a recording, in order.
RequestsOf(recording) ==
    [i \in 1..Len(recording.interactions) |->
        recording.interactions[i].request]

\* C15: the session is idle or recording; start_recording moves idle to
\* recording with an empty recording and a counter of 0, stop_recording
\* moves recording to idle and returns the interactions recorded since the
\* start_recording in their order, reset always ends idle with nothing in
\* progress; start_recording while recording, and stop_recording and
\* record_interaction while not recording, raise and leave the state, the
\* recording in progress and the counter as they were.
C15_SessionStateMachine ==
    /\ smState \in {"idle", "recording"}
    /\ smCall = "start_recording" =>
          IF smBefore.state = "recording"
          THEN raised = "RuntimeError" /\ SessionUnchanged
          ELSE /\ raised = ""
               /\ smState = "recording"
               /\ interactionCounter = 0
               /\ Len(currentRecording) = 1
               /\ currentRecording[1].interactions = <<>>
    /\ smCall = "stop_recording" =>
          IF smBefore.state # "recording"
          THEN raised = "RuntimeError" /\ SessionUnchanged
          ELSE /\ raised = ""
               /\ smState = "idle"
               /\ currentRecording = <<>>
               /\ interactionCounter = 0
               /\ Len(returned) = 1
               /\ RequestsOf(returned[1]) = smLog
    /\ smCall = "record_interaction" =>
          IF smBefore.state # "recording"
          THEN raised = "RuntimeError" /\ SessionUnchanged
          ELSE smState = "recording"
    /\ smCall = "reset" =>
          /\ raised = ""
          /\ smState = "idle"
          /\ currentRecording = <<>>
          /\ interactionCounter = 0

\* A stop_recording that returned two interactions with different requests.
C15_Witness ==
    /\ smCall = "stop_recording"
    /\ raised = ""
    /\ Len(returned) = 1
    /\ Len(returned[1].interactions) = 2
    /\ returned[1].interactions[1].request # returned[1].interactions[2].request

(***************************************************************************)
(* Claims about MCPRecorder.stop and record.                               *)
(***************************************************************************)

\* A recording VCRRecording.load accepts that holds the synthetic
\* initialize pair and no interaction.
IsPlaceholder(recording) ==
    /\ recording.initialize_request = Request(0, "initialize")
    /\ recording.initialize_response = "result"
    /\ recording.interactions = <<>>

\* C16: a stop() called after start() and before an initialize exchange
\* was captured, whatever other traffic was seen, raises nothing but the
\* IOError of a file that cannot be written, and when the file can be
\* written it ends the recording and returns and saves a recording with no
\* interactions and the synthetic initialize pair.
C16_StopBeforeInitialize ==
    [][(Stop /\ isRecording /\ ~initializeCaptured) =>
          /\ raised' \in {"", "IOError"}
          /\ raised' = "" =>
                /\ ~isRecording'
                /\ Len(returned') = 1
                /\ IsPlaceholder(returned'[1])
                /\ savedFile' = returned']_vars

\* start(), one message through a callback, then a stop() that returned
\* the placeholder.
C16_Witness ==
    /\ steps = 3
    /\ lastCallback # ""
    /\ ~isRecording
    /\ ~initializeCaptured
    /\ raised = ""
    /\ Len(returned) = 1
    /\ IsPlaceholder(returned[1])
    /\ savedFile = returned

\* C17: a stop() called when an earlier stop() has completed and no
\* start() came after it raises nothing.
C17_SecondStopDoesNotRaise ==
    [][(Stop /\ ~isRecording /\ returned # <<>>) => raised' = ""]_vars

\* C18: a record() that has ended after its wait, whether request_stop()
\* or a stop() of another task ended the wait, raised nothing but the
\* IOError of a file that cannot be written; and when it raised nothing,
\* the recording was saved exactly once since record() was called.
C18_RecordReturnsOnce ==
    recordPc = "done" =>
        /\ recordRaised \in {"", "IOError"}
        /\ recordRaised = "" => saveCount = 1

(***************************************************************************)
(* Claims about the files written, checked under SpecPersist.              *)
(***************************************************************************)

\* The destination holds what it held before the write began or the whole
\* text of the recording being written.
OldOrNew ==
    files[writer.path] \in {writer.before, File(Dump(writer.data))}

\* C19: at every point of a stop(), also after a write error or the death
\* of the process, the destination holds the file it held before or the
\* complete new file, so it is never a partial file; once stop() has
\* renamed the temporary file the destination holds the new file.
C19_StopPersistsAtomically ==
    /\ files[StopPath].exists => Loadable(files[StopPath])
    /\ writer.op = "stop" => OldOrNew
    /\ writer.op = "stop" /\ writer.pc = "done" =>
          files[StopPath] = File(Dump(writer.data))

\* The process died in a stop() that had written part of a recording, over
\* a destination that holds another recording.
C19_Witness ==
    /\ writer.op = "stop"
    /\ writer.pc = "crashed"
    /\ files[TmpPath(StopPath)].exists
    /\ Len(files[TmpPath(StopPath)].content) = 1
    /\ Loadable(files[StopPath])
    /\ files[StopPath] # File(Dump(writer.data))

\* C20: at every point of a VCRRecording.save(), also after a failure or
\* the death of the process, the destination holds the file it held before
\* or the complete new file, and after a save that succeeded no temporary
\* file is left.
C20_SaveAtomic ==
    writer.op = "save" =>
        /\ OldOrNew
        /\ writer.pc = "done" => ~files[TmpPath(SavePath)].exists

(***************************************************************************)
(* Claims about the recorder's cap, checked under Spec.                    *)
(***************************************************************************)

\* C22: with max_interactions = K > 0 neither the recording in progress nor
\* a recording stop() returned or saved holds more than K interactions, and
\* a response that arrives when the cap is reached is returned unchanged
\* by the callback, so the transport still forwards it.
C22_CapNeverExceeded ==
    maxInteractions > 0 =>
        /\ \A recording \in Range(currentRecording) \cup Range(returned)
                              \cup Range(savedFile) :
               Len(recording.interactions) <= maxInteractions
        /\ lastCase = "capped" => forwarded = "unchanged"

\* A response met the reached cap: it was forwarded and not recorded.
C22_Witness ==
    /\ maxInteractions > 0
    /\ lastCallback = "server"
    /\ lastCase = "capped"
    /\ forwarded = "unchanged"
    /\ Len(currentRecording) = 1
    /\ Len(currentRecording[1].interactions) = maxInteractions

(***************************************************************************)
(* Claims about serialization, checked under SpecFormat.                   *)
(***************************************************************************)

\* C21: what load returns for the file save wrote, and what from_json
\* returns for the string to_json returned, equals the recording: the
\* same interactions in the same order, each with its sequence number,
\* timestamp, request, response and notifications in their order.
C21_RoundTrip == formatLoaded # <<>> => formatLoaded[1] = formatDoc

\* A recording loaded back from its file, of two interactions whose
\* sequence numbers are not their positions and whose notifications are
\* not in the order of their serials.
C21_Witness ==
    /\ formatLoaded # <<>>
    /\ formatText[1].via = "file"
    /\ Len(formatLoaded[1]) = 2
    /\ formatLoaded[1][1].sequence = 1
    /\ formatLoaded[1][2].sequence = 0
    /\ formatLoaded[1][1].notifications = <<Notification(2), Notification(1)>>
    /\ formatLoaded[1][2].response = <<>>

(***************************************************************************)
(* Claims about MCPDiff.compare, checked under SpecDiff and SpecModified.  *)
(***************************************************************************)

\* C23: comparing a recording with itself gives is_identical and
\* is_compatible with nothing added, removed or modified, also when the
\* recording holds several interactions with the same method and params
\* and different responses.
C23_SelfDiffIdentical ==
    (diffResult # <<>> /\ diffBaseline = diffCurrent) =>
        /\ diffResult[1].is_identical
        /\ diffResult[1].is_compatible
        /\ diffResult[1].added_interactions = {}
        /\ diffResult[1].removed_interactions = {}
        /\ diffResult[1].modified_interactions = {}

\* C24: a method only in the baseline gives the breaking change "Method
\* removed" and has all its interactions removed; a method only in
\* current gives the breaking change "New method added" and has all its
\* interactions added; either way the result is neither compatible nor
\* identical.
C24_MethodAddedOrRemoved ==
    diffResult # <<>> =>
        /\ \A m \in MethodsOf(diffBaseline) :
              m \notin MethodsOf(diffCurrent) =>
                /\ <<"Method removed", m, 0>>
                      \in diffResult[1].breaking_changes
                /\ ByMethod(diffBaseline, m)
                      \subseteq diffResult[1].removed_interactions
                /\ ~diffResult[1].is_compatible
                /\ ~diffResult[1].is_identical
        /\ \A m \in MethodsOf(diffCurrent) :
              m \notin MethodsOf(diffBaseline) =>
                /\ <<"New method added", m, 0>>
                      \in diffResult[1].breaking_changes
                /\ ByMethod(diffCurrent, m)
                      \subseteq diffResult[1].added_interactions
                /\ ~diffResult[1].is_compatible
                /\ ~diffResult[1].is_identical

\* A baseline of two tools/call interactions compared with a current
\* recording of two tools/list interactions: one method removed, one added.
C24_Witness ==
    /\ diffResult # <<>>
    /\ MethodsOf(diffBaseline) = {"tools/call"}
    /\ MethodsOf(diffCurrent) = {"tools/list"}
    /\ diffResult[1].removed_interactions = {1, 2}
    /\ diffResult[1].added_interactions = {1, 2}
    /\ diffResult[1].breaking_changes =
          {<<"Method removed", "tools/call", 0>>,
           <<"New method added", "tools/list", 0>>}

\* The baseline and the current response of a ModifiedInteraction.
BaselineResponse(m) == diffBaseline[m.baseline].response[1]
CurrentResponse(m) == diffCurrent[m.current].response[1]

\* The modified interactions of the result whose responses are both there.
ModifiedPairs ==
    IF diffResult = <<>> THEN {}
    ELSE {m \in diffResult[1].modified_interactions :
             /\ diffBaseline[m.baseline].response # <<>>
             /\ diffCurrent[m.current].response # <<>>}

\* C25: is_compatible of a modified interaction is false when one response
\* is an error and the other a result, and when both are errors with
\* different codes; two errors with the same code and different messages
\* are compatible.
C25_ErrorStatusAndCode ==
    \A m \in ModifiedPairs :
        /\ BaselineResponse(m).kind # CurrentResponse(m).kind
              => ~m.is_compatible
        /\ (/\ BaselineResponse(m).kind = "error"
            /\ CurrentResponse(m).kind = "error"
            /\ BaselineResponse(m).code # CurrentResponse(m).code)
              => ~m.is_compatible
        /\ (/\ BaselineResponse(m).kind = "error"
            /\ CurrentResponse(m).kind = "error"
            /\ BaselineResponse(m).code = CurrentResponse(m).code
            /\ BaselineResponse(m).message # CurrentResponse(m).message)
              => m.is_compatible

\* The field check the payloads of two responses are expected to pass: a
\* field of the baseline is present in current, at any depth, and a field
\* of both has the same JSON type unless one of the values is null.
RECURSIVE FieldsCompatible(_, _)
FieldsCompatible(baseline, current) ==
    IF baseline.t = "null" \/ current.t = "null" THEN TRUE
    ELSE IF baseline.t # current.t THEN FALSE
    ELSE IF baseline.t # "obj" THEN TRUE
    ELSE \A field \in baseline.fields :
            /\ \E other \in current.fields : other[1] = field[1]
            /\ FieldsCompatible(field[2], Field(current, field[1]))

\* C26: is_compatible of a modified interaction with two results is the
\* outcome of the recursive field check on the two payloads: false for a
\* field removed at any depth or a change of JSON type between non-null
\* values, true for added fields and for values of the same type.
C26_RecursiveFieldCheck ==
    \A m \in ModifiedPairs :
        (BaselineResponse(m).kind = "result"
            /\ CurrentResponse(m).kind = "result") =>
            m.is_compatible = FieldsCompatible(BaselineResponse(m).payload,
                                               CurrentResponse(m).payload)

\* A recording with every latency_ms replaced by the same value.
SameLatency(list) ==
    [i \in 1..Len(list) |-> [list[i] EXCEPT !.latency_ms = 100]]

\* The matched pairs of the comparison whose current latency is above both
\* thresholds: more than twice the baseline latency and more than 500 ms
\* over it.
LatencyRegressions ==
    {c \in 1..Len(diffCurrent) :
        LET b == FindMatchingInteraction(diffCurrent[c], diffBaseline)
        IN  /\ b # 0
            /\ diffCurrent[c].latency_ms > 2 * diffBaseline[b].latency_ms
            /\ diffCurrent[c].latency_ms - diffBaseline[b].latency_ms > 500}

\* C27: compare called without compare_latency gives the is_compatible it
\* gives when all latencies are equal; called with compare_latency it
\* returns a result that is incompatible when some matched interaction is
\* beyond both thresholds, and is otherwise as compatible as without the
\* latencies.
C27_LatencyRegression ==
    diffOptions # {} \/ diffResult # <<>> =>
        IF "compare_latency" \in diffOptions
        THEN /\ diffRaised = ""
             /\ diffResult # <<>>
             /\ diffResult[1].is_compatible =
                  (/\ LatencyRegressions = {}
                   /\ DiffResult(SameLatency(diffBaseline),
                                 SameLatency(diffCurrent)).is_compatible)
        ELSE /\ diffResult # <<>>
             /\ diffResult[1].is_compatible =
                  DiffResult(SameLatency(diffBaseline),
                             SameLatency(diffCurrent)).is_compatible

(***************************************************************************)
(* Claims about the transports, checked under SpecStop, SpecStdio and      *)
(* SpecStdioFair.                                                          *)
(***************************************************************************)
Position(log, entry) == CHOOSE i \in 1..Len(log) : log[i] = entry

\* C28: stop() of either transport raises nothing in any state and however
\* often it is called, and leaves is_connected false; the stdio stop
\* cancels the read loops and the monitor before it terminates the
\* process, and kills the process only after terminate and the grace period.
C28_StopIdempotent ==
    /\ transportCall[2] = "stop" => transportRaised = ""
    /\ transportCall = <<"sse", "stop">> => ~sseTransport.is_connected
    /\ transportCall = <<"stdio", "stop">> =>
          /\ ~stdio.is_connected
          /\ stdio.reader_task # "running"
          /\ stdio.writer_task # "running"
          /\ streams.serverLoop # "running"
          /\ streams.clientLoop # "running"
    /\ \A i \in 1..Len(stdioLog) :
          /\ stdioLog[i] \in {"cancel_reader", "cancel_monitor"} =>
                \A j \in 1..Len(stdioLog) :
                    stdioLog[j] \in {"terminate", "kill"} => i < j
          /\ stdioLog[i] = "kill" =>
                /\ i >= 3
                /\ stdioLog[i - 1] = "timeout"
                /\ stdioLog[i - 2] = "terminate"

\* A second stop() of a StdioTransport whose process survived the first
\* one: the tasks are already cancelled, the process is terminated again
\* and killed after the grace period; the SSETransport next to it has been
\* stopped twice as well.
C28_Witness ==
    /\ transportCall = <<"stdio", "stop">>
    /\ stdio.stops = 2
    /\ stdioLog = <<"terminate", "timeout", "kill">>
    /\ sseTransport.stops = 2
    /\ sseTransport.site = "stopped"
    /\ ~sseTransport.is_connected

\* What a stream is expected to write for the lines its loop has taken:
\* nothing for a line that is not a message or a suppressed one, the
\* return value of the callback, the message itself if the callback raised.
RECURSIVE ExpectedOutput(_)
ExpectedOutput(seen) ==
    IF seen = <<>> THEN <<>>
    ELSE LET entry == seen[Len(seen)]
             before == ExpectedOutput(SubSeq(seen, 1, Len(seen) - 1))
         IN  IF entry.line.kind # "json" \/ entry.callback = "suppress"
             THEN before
             ELSE IF entry.callback = "modified"
             THEN Append(before, entry.line.msg \o "'")
             ELSE Append(before, entry.line.msg)

\* C29: on each stream of a StdioTransport, as long as the other side
\* takes what is written, the output is the messages read so far in their
\* order, as the callback returned them, and a read loop ends only at end
\* of file, on cancellation, on a read timeout or when the other side is
\* gone: never because of a line or of a callback.
C29_StdioForwarding ==
    /\ streams.serverLoop # "ConnectionError" =>
          streams.toClient = ExpectedOutput(streams.serverSeen)
    /\ streams.clientLoop # "ConnectionError" =>
          streams.toServer = ExpectedOutput(streams.clientSeen)
    /\ streams.serverLoop \in {"idle", "running", "eof", "cancelled",
                               "ConnectionError", "TimeoutError"}
    /\ streams.clientLoop \in {"idle", "running", "eof", "cancelled",
                               "ConnectionError", "TimeoutError"}

\* The transport is running and both peers are alive.
Proxying ==
    /\ ~stdio.shutdown
    /\ stdio.reader_task # "none"
    /\ stdio.process = "alive"
    /\ streams.clientOpen

\* The first n lines written to a pipe are messages.
Messages(seen, pending, n) ==
    /\ Len(seen) + Len(pending) >= n
    /\ \A i \in 1..Len(seen) : seen[i].line.kind = "json"
    /\ \A i \in 1..Len(pending) : pending[i].kind = "json"

\* C30: while the transport is running and both peers are alive, a message
\* written by the server is eventually taken by the server read loop and a
\* message written by the client by the client read loop, whatever the
\* other stream does and however long the pipe was silent before.
C30_EveryMessageForwarded ==
    \A n \in 1..MaxLines :
        /\ (Proxying /\ Messages(streams.serverSeen, streams.serverIn, n))
              ~> (~Proxying \/ Len(streams.serverSeen) >= n)
        /\ (Proxying /\ Messages(streams.clientSeen, streams.clientIn, n))
              ~> (~Proxying \/ Len(streams.clientSeen) >= n)

(***************************************************************************)
(* Claims about concurrent recording, checked under SpecWorkers.           *)
(***************************************************************************)

\* C31: when every thread has left record_interaction, the interactions of
\* the recording carry the sequence numbers 0, 1, 2, ... in list order:
\* distinct, consecutive, interactions[i].sequence = i.
C31_ConcurrentSequence ==
    (\A t \in Threads : worker[t].at = "idle") =>
        \A i \in 1..Len(currentRecording[1].interactions) :
            currentRecording[1].interactions[i].sequence = i - 1

(***************************************************************************)
(* Claims about the recorder's session bootstrap, pending requests and     *)
(* notification buffer, checked under Spec.                                *)
(***************************************************************************)

\* C32: the recorder bootstraps the session exactly once.  The response
\* to the first pending initialize request moves the session manager from
\* idle to recording and stores the pair as initialize_request /
\* initialize_response with no interaction; the response to any later
\* initialize request leaves the pair and the session in place and is
\* appended as an interaction like any other (unless the cap is reached);
\* start_recording is never called on a session that is recording; and
\* no step adds an interaction while no initialize pair is captured.
C32_BootstrapOnce ==
    [][/\ \A msg \in ServerResponses :
             (/\ lastCallback' = "server"
              /\ ParseResponse(msg) = "response"
              /\ msg.id \in DOMAIN pendingRequests
              /\ pendingRequests[msg.id].method = "initialize"
              /\ OnServerMessage(msg)) =>
                IF ~initializeCaptured
                THEN /\ smState = "idle"
                     /\ smState' = "recording"
                     /\ initializeCaptured'
                     /\ currentRecording' =
                           <<[initialize_request |-> pendingRequests[msg.id],
                              initialize_response |-> msg.body,
                              interactions |-> <<>>]>>
                ELSE /\ smState = "recording" /\ smState' = "recording"
                     /\ currentRecording'[1].initialize_request =
                           currentRecording[1].initialize_request
                     /\ currentRecording'[1].initialize_response =
                           currentRecording[1].initialize_response
                     /\ ~CapReached =>
                           currentRecording'[1].interactions =
                              Append(currentRecording[1].interactions,
                                     Interaction(interactionCounter,
                                                 pendingRequests[msg.id],
                                                 msg.body, notificationBuffer))
       /\ (currentRecording' # <<>> /\ currentRecording # currentRecording'
              /\ currentRecording'[1].interactions # <<>>) =>
             /\ initializeCaptured
             /\ currentRecording # <<>>
             /\ currentRecording'[1].initialize_request =
                   currentRecording[1].initialize_request]_vars

\* A second initialize exchange was recorded as the first interaction of a
\* session that an earlier initialize exchange had started.
C32_Witness ==
    /\ smState = "recording"
    /\ initializeCaptured
    /\ lastCase = "recorded"
    /\ Len(currentRecording[1].interactions) = 1
    /\ currentRecording[1].interactions[1].request.method = "initialize"
    /\ currentRecording[1].initialize_request.method = "initialize"
    /\ currentRecording[1].initialize_request.id #
          currentRecording[1].interactions[1].request.id

(***************************************************************************)
(* Claims about the notification buffer under concurrent server            *)
(* responses, checked under SpecWorkers.                                   *)
(***************************************************************************)

\* The places (interaction, position) where notification n is attached.
AttachedAt(n) ==
    {place \in (1..Len(currentRecording[1].interactions)) \X (1..MaxNotifs) :
        /\ place[2] <= Len(currentRecording[1].interactions[place[1]].notifications)
        /\ currentRecording[1].interactions[place[1]].notifications[place[2]] = n}

\* C35: however the threads handling server responses interleave, each
\* buffered notification is attached to at most one interaction, at one
\* position, and the notifications of an interaction are in the order in
\* which they arrived.
C35_NotificationAttachedOnce ==
    /\ \A n \in 1..MaxNotifs : Cardinality(AttachedAt(n)) <= 1
    /\ \A k \in 1..Len(currentRecording[1].interactions) :
          LET attached == currentRecording[1].interactions[k].notifications
          IN  \A i, j \in 1..Len(attached) : i < j => attached[i] < attached[j]

\* Two responses were handled at the same time (both interactions got the
\* same sequence number), each took one notification, and a third response
\* handled later found the buffer empty.
C35_Witness ==
    /\ Len(currentRecording[1].interactions) = 3
    /\ currentRecording[1].interactions[1].sequence =
          currentRecording[1].interactions[2].sequence
    /\ currentRecording[1].interactions[1].notifications = <<2>>
    /\ currentRecording[1].interactions[2].notifications = <<1>>
    /\ currentRecording[1].interactions[3].notifications = <<>>

(***************************************************************************)
(* Claims about pending requests over time and over sessions, checked      *)
(* under SpecHistory.                                                      *)
(***************************************************************************)

\* The pending requests whose age exceeds pending_timeout_seconds.
Aged == {i \in DOMAIN pendingRequests :
            now - pendingRequestTimes[i] > pendingTimeout}

\* C33: a sweep runs only in a recorder with pending_timeout_seconds > 0
\* and removes from both maps exactly the requests whose age exceeds the
\* timeout, leaving the others as they were; and a response whose request
\* was evicted is returned unchanged and changes nothing in the recording.
C33_EvictionSweep ==
    [][/\ HistorySweep =>
             /\ pendingTimeout > 0
             /\ pendingRequests' = DictDel(pendingRequests, Aged)
             /\ pendingRequestTimes' = DictDel(pendingRequestTimes, Aged)
       /\ pendingTimeout = 0 => ~cleanupTask /\ ~cleanupTask'
       /\ \A msg \in ServerResponses :
             (HistoryServer(msg) /\ ParseResponse(msg) = "response"
                 /\ msg.id \in epoch.evicted) =>
                /\ forwarded' = "unchanged"
                /\ lastCase' = "unknown"
                /\ currentRecording' = currentRecording
                /\ interactionCounter' = interactionCounter]_vars

\* A sweep evicted a request, and the response to it then arrived in a
\* recording session: it was forwarded and nothing was recorded.
C33_Witness ==
    /\ epoch.late
    /\ lastCallback = "server"
    /\ lastCase = "unknown"
    /\ forwarded = "unchanged"
    /\ smState = "recording"
    /\ epoch.evicted # {}
    /\ currentRecording[1].interactions = <<>>

\* The notifications attached by the last recorded response all arrived
\* in the session it was recorded in.
NotificationsOfSameSession ==
    epoch.paired # <<>> =>
        \A j \in 1..Len(epoch.paired[1].notifications) :
            epoch.paired[1].notifications[j] = epoch.paired[1].session

\* C40: nothing leaks from one session of a recorder into the next: the
\* request paired with a response that starts a session or is recorded,
\* and every notification attached with it, was captured after the
\* start() of the session the response arrived in.
C40_NoLeakBetweenSessions ==
    /\ epoch.paired # <<>> =>
          epoch.paired[1].request = epoch.paired[1].session
    /\ NotificationsOfSameSession

(***************************************************************************)
(* Claims about a failed SSETransport.start, checked under SpecStop.       *)
(***************************************************************************)

\* C34: after a start() that failed because the proxy could not bind or
\* the remote server could not be reached, nothing is left partially
\* started: the local site is not listening, the runner is not set up,
\* the client session is not open, and is_connected is false, so that a
\* later start() is accepted.
C34_FailedStartLeavesNothing ==
    (transportCall = <<"sse", "start">>
        /\ transportRaised \in {"OSError", "ConnectionError"}) =>
       /\ ~sseTransport.is_connected
       /\ sseTransport.site # "started"
       /\ sseTransport.runner # "setup"
       /\ sseTransport.session # "open"

(***************************************************************************)
(* Claims about failures inside MCPRecorder.start and stop, checked under  *)
(* Spec.                                                                   *)
(***************************************************************************)

\* C38: a stop() that is retried after a stop() that could not write the
\* file saves what was captured: when an initialize exchange was captured
\* in this session, the recording it saves and returns holds that
\* initialize pair, and is not the synthetic placeholder.
C38_RetriedStopKeepsData ==
    [][(Stop /\ isRecording /\ raised = "IOError" /\ initializeCaptured
           /\ raised' = "") =>
          /\ Len(savedFile') = 1
          /\ ~IsPlaceholder(savedFile'[1])
          /\ returned' = savedFile']_vars

\* C39: after a start() that failed because the transport could not be
\* started, the recorder is not recording and has no cleanup task, so
\* that a later start() is accepted.
C39_FailedStartNotRecording ==
    raised = "ConnectionError" => ~isRecording /\ ~cleanupTask

(***************************************************************************)
(* Claims about MCPReplayer.get_notifications_for_request, checked under   *)
(* SpecQuery.                                                              *)
(***************************************************************************)

\* C36: get_notifications_for_request changes no replayer state: it
\* consumes no response override and does not advance the matcher; and a
\* handle_request for the same request that follows it returns the
\* response the replayer would have returned in place of the query.
C36_QueryIsPure ==
    [][\A request \in ReplayRequests :
          /\ GetNotificationsForRequest(request) =>
                /\ responseOverrides' = responseOverrides
                /\ sequentialIndex' = sequentialIndex
          /\ (HandleRequest(request) /\ query # <<>>
                 /\ query[1].request = request) =>
                lastResponse' = <<query[1].response>>]_vars

(***************************************************************************)
(* Claims about the SSE proxy's relay, checked under SpecProxy.            *)
(***************************************************************************)

\* How often x occurs in the sequence q.
Occurrences(q, x) == Cardinality({i \in 1..Len(q) : q[i] = x})

\* Every stream to the remote server and every client queue is empty.
ProxyQuiet ==
    \A c \in SseClients : proxy.upstream[c] = <<>> /\ proxy.queues[c] = <<>>

\* C37: once everything in flight has been relayed, each event the remote
\* server emitted while at least one client was connected has caused
\* exactly one on_server_message call and has been written exactly once
\* to each client that was connected when it was emitted.
C37_RelayedExactlyOnce ==
    ProxyQuiet =>
        \A event \in 1..Len(proxy.audience) :
            /\ Occurrences(proxy.callbacks, event) = 1
            /\ \A c \in proxy.audience[event] :
                  Occurrences(proxy.written[c], event) = 1

====
